---- MODULE Spec2Model ----
(***************************************************************************)
(* speckit-status: the tasks.md parser (parser.ts), the dependency-section *)
(* parser and the availability engine (dependency-parser.ts).              *)
(*                                                                         *)
(* A document is a string; a line is a string without "\n".  The regular   *)
(* expressions of the source are written out as character scanners over    *)
(* strings (Len, SubSeq and \o on strings), so that a line matches here    *)
(* exactly when the JavaScript expression matches it.                      *)
(***************************************************************************)
EXTENDS Integers, Sequences, FiniteSets, TLC

(***************************************************************************)
(* Optional values (TypeScript `x?: T`, `T | null`, `T | undefined`): the  *)
(* empty tuple is undefined/null, a one-element tuple holds the value.     *)
(***************************************************************************)
undefined == << >>
Some(v) == << v >>
IsDefined(o) == o # << >>
Value(o) == o[1]

(***************************************************************************)
(* Characters and strings.                                                 *)
(***************************************************************************)
\* The printable ASCII characters in code-unit order: 32 (space) to 95 (_),
\* and 97 (a) to 126 (~).
AsciiLow == " !\"#$%&'()*+,-./0123456789:;<=>?@ABCDEFGHIJKLMNOPQRSTUVWXYZ[\\]^_"
AsciiHigh == "abcdefghijklmnopqrstuvwxyz{|}~"

Ch(s, i) == SubSeq(s, i, i)

AsciiChars == { Ch(AsciiLow, i) : i \in 1..Len(AsciiLow) } \cup { Ch(AsciiHigh, i) : i \in 1..Len(AsciiHigh) }

\* UTF-16 code unit of a printable ASCII character.
CodeUnit ==
  [ c \in AsciiChars |->
      IF \E i \in 1..Len(AsciiLow) : Ch(AsciiLow, i) = c
      THEN 31 + (CHOOSE i \in 1..Len(AsciiLow) : Ch(AsciiLow, i) = c)
      ELSE 96 + (CHOOSE i \in 1..Len(AsciiHigh) : Ch(AsciiHigh, i) = c) ]

\* Case folding of a regular expression with the i flag: an ASCII capital
\* letter (65..90) and its small letter (97..122) are the same.
Fold ==
  [ c \in AsciiChars |->
      IF CodeUnit[c] >= 65 /\ CodeUnit[c] <= 90 THEN Ch(AsciiHigh, CodeUnit[c] - 64) ELSE c ]

DigitChars == { "0", "1", "2", "3", "4", "5", "6", "7", "8", "9" }

\* \d
IsDigit(c) == c \in DigitChars

\* \s, for the white space a line can hold (a line holds no "\n")
IsSpace(c) == c \in { " ", "\t" }

DigitValue == [ c \in DigitChars |-> CodeUnit[c] - 48 ]

\* The literal lit stands in s at position i.
LitAt(s, i, lit) ==
  /\ i >= 1
  /\ i + Len(lit) - 1 <= Len(s)
  /\ SubSeq(s, i, i + Len(lit) - 1) = lit

\* The literal lit stands in s at position i, letter case ignored.
LitAtFold(s, i, lit) ==
  /\ i >= 1
  /\ i + Len(lit) - 1 <= Len(s)
  /\ \A k \in 1..Len(lit) : Fold[Ch(s, i + k - 1)] = Fold[Ch(lit, k)]

\* First position >= i of s that holds no white space (Len(s)+1 if none): \s*
RECURSIVE SkipSpace(_, _)
SkipSpace(s, i) ==
  IF i <= Len(s) /\ IsSpace(Ch(s, i)) THEN SkipSpace(s, i + 1) ELSE i

\* First position >= i of s that holds no digit: \d*
RECURSIVE SkipDigits(_, _)
SkipDigits(s, i) ==
  IF i <= Len(s) /\ IsDigit(Ch(s, i)) THEN SkipDigits(s, i + 1) ELSE i

\* String.prototype.startsWith
StartsWith(s, lit) == LitAt(s, 1, lit)

\* String.prototype.includes
Includes(s, lit) == \E i \in 1..(Len(s) - Len(lit) + 1) : LitAt(s, i, lit)

\* String.prototype.trim
RECURSIVE TrimEnd(_)
TrimEnd(s) ==
  IF Len(s) > 0 /\ IsSpace(Ch(s, Len(s))) THEN TrimEnd(SubSeq(s, 1, Len(s) - 1)) ELSE s

Trim(s) == TrimEnd(SubSeq(s, SkipSpace(s, 1), Len(s)))

\* parseInt(s, 10) of a string of digits
RECURSIVE ParseDigits(_)
ParseDigits(s) ==
  IF Len(s) = 0 THEN 0
  ELSE 10 * ParseDigits(SubSeq(s, 1, Len(s) - 1)) + DigitValue[Ch(s, Len(s))]

\* parseInt(s, 10): the leading digits of s; NaN (undefined here) without one.
\* The callers pass trimmed, unsigned text.
ParseInt(s) ==
  IF SkipDigits(s, 1) = 1 THEN undefined
  ELSE Some(ParseDigits(SubSeq(s, 1, SkipDigits(s, 1) - 1)))

\* Number.prototype.toString of a natural number
RECURSIVE NumberToString(_)
NumberToString(n) ==
  IF n < 10 THEN Ch("0123456789", n + 1)
  ELSE NumberToString(n \div 10) \o Ch("0123456789", (n % 10) + 1)

\* String.prototype.padStart(width, "0")
RECURSIVE PadStart(_, _)
PadStart(s, width) == IF Len(s) >= width THEN s ELSE PadStart("0" \o s, width)

\* a < b in the order of Array.prototype.sort without a comparator
\* (code units, a proper prefix first)
RECURSIVE StringLess(_, _)
StringLess(a, b) ==
  IF Len(b) = 0 THEN FALSE
  ELSE IF Len(a) = 0 THEN TRUE
  ELSE IF Ch(a, 1) # Ch(b, 1) THEN CodeUnit[Ch(a, 1)] < CodeUnit[Ch(b, 1)]
  ELSE StringLess(SubSeq(a, 2, Len(a)), SubSeq(b, 2, Len(b)))

(***************************************************************************)
(* parser.ts: the line grammar.                                            *)
(***************************************************************************)
\* The optional group (?:\s*\(Priority:\s*(P\d)\))? followed by $, at position p.
PrioritySuffixAt(line, p) ==
  LET q == SkipSpace(line, p)
      r == SkipSpace(line, q + 10)
  IN  /\ LitAt(line, q, "(Priority:")
      /\ LitAt(line, r, "P")
      /\ r + 1 <= Len(line) /\ IsDigit(Ch(line, r + 1))
      /\ LitAt(line, r + 2, ")")
      /\ r + 2 = Len(line)

\* /^##\s+Phase\s+(\d+):\s*(.+?)(?:\s*\(Priority:\s*(P\d)\))?$/
\* line.match: undefined (null) or the groups [number, title, priority].
PHASE_HEADER_REGEX(line) ==
  LET b == SkipSpace(line, 3)
      d == SkipSpace(line, b + 5)
      e == SkipDigits(line, d)
      g == SkipSpace(line, e + 1)
      \* \s* is greedy and gives one character back when nothing is left for .+?
      t == IF g <= Len(line) THEN g ELSE g - 1
      \* .+? is lazy: the shortest title after which the priority group and $ match
      ends == { k \in t..Len(line) : k = Len(line) \/ PrioritySuffixAt(line, k + 1) }
      k == CHOOSE m \in ends : \A n \in ends : m <= n
  IN  IF /\ LitAt(line, 1, "##")
         /\ b > 3
         /\ LitAt(line, b, "Phase")
         /\ d > b + 5
         /\ e > d
         /\ LitAt(line, e, ":")
         /\ t > e
         /\ t <= Len(line)
      THEN Some([ number |-> SubSeq(line, d, e - 1),
                  title |-> SubSeq(line, t, k),
                  priority |-> IF k < Len(line)
                               THEN Some(SubSeq(line, Len(line) - 2, Len(line) - 1))
                               ELSE undefined ])
      ELSE undefined

\* /^-\s+\[(X| )\]\s+(T\d+)\s+(.*)$/
\* line.match: undefined (null) or the groups [checkbox, id, title].
TASK_LINE_REGEX(line) ==
  LET b == SkipSpace(line, 2)
      d == SkipSpace(line, b + 3)
      e == SkipDigits(line, d + 1)
      f == SkipSpace(line, e)
  IN  IF /\ LitAt(line, 1, "-")
         /\ b > 2
         /\ LitAt(line, b, "[")
         /\ (LitAt(line, b + 1, "X") \/ LitAt(line, b + 1, " "))
         /\ LitAt(line, b + 2, "]")
         /\ d > b + 3
         /\ LitAt(line, d, "T")
         /\ e > d + 1
         /\ f > e
      THEN Some([ checkbox |-> Ch(line, b + 1),
                  id |-> SubSeq(line, d, e - 1),
                  title |-> SubSeq(line, f, Len(line)) ])
      ELSE undefined

\* Task
parseTaskLine(match) ==
  [ id |-> match.id, completed |-> (match.checkbox = "X"), title |-> Trim(match.title) ]

\* finalizePhase with the filter left out: every task counts as completed
finalizePhase_CountsAll(phase) ==
  [ phase EXCEPT !.completedCount = Len(phase.tasks),
                 !.totalCount = Len(phase.tasks),
                 !.isComplete = (Len(phase.tasks) > 0) ]

\* Phase, its counts computed from its tasks
finalizePhase(phase) ==
  LET IsCompleted(t) == t.completed
      completedCount == Len(SelectSeq(phase.tasks, IsCompleted))
  IN  [ phase EXCEPT !.completedCount = completedCount,
                     !.totalCount = Len(phase.tasks),
                     !.isComplete = (completedCount = Len(phase.tasks) /\ Len(phase.tasks) > 0) ]

\* The phase a header line opens
NewPhase(match) ==
  [ number |-> ParseDigits(match.number),
    title |-> Trim(match.title),
    tasks |-> << >>,
    completedCount |-> 0,
    totalCount |-> 0,
    isComplete |-> FALSE,
    priority |-> match.priority,
    dependency |-> undefined ]

\* ScanLines_Unshift with unshift in the place of push: a task goes in front
RECURSIVE ScanLines_Unshift(_, _, _, _)
ScanLines_Unshift(lines, i, phases, currentPhase) ==
  IF i > Len(lines)
  THEN IF IsDefined(currentPhase)
       THEN Append(phases, finalizePhase(Value(currentPhase)))
       ELSE phases
  ELSE LET line == lines[i]
           phaseMatch == PHASE_HEADER_REGEX(line)
           taskMatch == TASK_LINE_REGEX(line)
       IN  IF IsDefined(phaseMatch)
           THEN ScanLines_Unshift(lines, i + 1,
                          IF IsDefined(currentPhase)
                          THEN Append(phases, finalizePhase(Value(currentPhase)))
                          ELSE phases,
                          Some(NewPhase(Value(phaseMatch))))
           ELSE IF IsDefined(taskMatch) /\ IsDefined(currentPhase)
           THEN ScanLines_Unshift(lines, i + 1, phases,
                          Some([ Value(currentPhase) EXCEPT
                                   !.tasks = << parseTaskLine(Value(taskMatch)) >> \o @ ]))
           ELSE ScanLines_Unshift(lines, i + 1, phases, currentPhase)

\* The scan of parseTasksFile over lines[i..]: phases holds the finalized
\* phases, currentPhase the phase being filled (undefined is null).
RECURSIVE ScanLines(_, _, _, _)
ScanLines(lines, i, phases, currentPhase) ==
  IF i > Len(lines)
  THEN IF IsDefined(currentPhase)
       THEN Append(phases, finalizePhase(Value(currentPhase)))
       ELSE phases
  ELSE LET line == lines[i]
           phaseMatch == PHASE_HEADER_REGEX(line)
           taskMatch == TASK_LINE_REGEX(line)
       IN  IF IsDefined(phaseMatch)
           THEN ScanLines(lines, i + 1,
                          IF IsDefined(currentPhase)
                          THEN Append(phases, finalizePhase(Value(currentPhase)))
                          ELSE phases,
                          Some(NewPhase(Value(phaseMatch))))
           ELSE IF IsDefined(taskMatch) /\ IsDefined(currentPhase)
           THEN ScanLines(lines, i + 1, phases,
                          Some([ Value(currentPhase) EXCEPT
                                   !.tasks = Append(@, parseTaskLine(Value(taskMatch))) ]))
           ELSE ScanLines(lines, i + 1, phases, currentPhase)

(***************************************************************************)
(* Arrays, and Map as the sequence of its [key, value] entries in          *)
(* insertion order (Map.set on a present key keeps the entry's place).     *)
(***************************************************************************)
\* Array.prototype.includes
SeqIncludes(seq, v) == \E i \in 1..Len(seq) : seq[i] = v

\* Array.prototype.sort((a, b) => a - b): insertion into ascending order
RECURSIVE SortNumbers(_)
SortNumbers(seq) ==
  IF seq = << >> THEN << >>
  ELSE LET rest == SortNumbers(SubSeq(seq, 1, Len(seq) - 1))
           v == seq[Len(seq)]
           IsLeq(n) == n <= v
           IsGt(n) == n > v
       IN  SelectSeq(rest, IsLeq) \o << v >> \o SelectSeq(rest, IsGt)

\* Array.prototype.sort(): ascending in the order of code units
RECURSIVE SortStrings(_)
SortStrings(seq) ==
  IF seq = << >> THEN << >>
  ELSE LET rest == SortStrings(SubSeq(seq, 1, Len(seq) - 1))
           v == seq[Len(seq)]
           IsLeq(t) == ~StringLess(v, t)
           IsGt(t) == StringLess(v, t)
       IN  SelectSeq(rest, IsLeq) \o << v >> \o SelectSeq(rest, IsGt)

\* [...new Set(seq)]: the first occurrence of every element, in order
RECURSIVE Dedupe(_)
Dedupe(seq) ==
  IF seq = << >> THEN << >>
  ELSE LET init == Dedupe(SubSeq(seq, 1, Len(seq) - 1))
       IN  IF SeqIncludes(init, seq[Len(seq)]) THEN init ELSE Append(init, seq[Len(seq)])

\* Map.prototype.has
MapHas(map, key) == \E i \in 1..Len(map) : map[i].key = key

\* Map.prototype.get: undefined without the key
MapGet(map, key) ==
  IF MapHas(map, key)
  THEN Some(map[CHOOSE i \in 1..Len(map) : map[i].key = key].value)
  ELSE undefined

\* Map.prototype.set
MapSet(map, key, value) ==
  IF MapHas(map, key)
  THEN [ i \in 1..Len(map) |-> IF map[i].key = key THEN [ key |-> key, value |-> value ] ELSE map[i] ]
  ELSE Append(map, [ key |-> key, value |-> value ])

\* content.split("\n"): the pieces between the separators, which stand at
\* the positions breaks
Split(content, sep) ==
  LET Kth(breaks, k) ==
        IF k = 0 THEN 0
        ELSE IF k > Cardinality(breaks) THEN Len(content) + 1
        ELSE CHOOSE h \in breaks : Cardinality({ g \in breaks : g <= h }) = k
      Pieces(breaks) ==
        [ k \in 1..(Cardinality(breaks) + 1) |->
            SubSeq(content, Kth(breaks, k - 1) + 1, Kth(breaks, k) - 1) ]
  IN  Pieces({ i \in 1..Len(content) : Ch(content, i) = sep })

\* lines.findIndex((l, i) => i > after && l.includes(header)): the first such
\* position (from 1), 0 where the source has -1
FindIndex(lines, after, header) ==
  LET hits == { i \in 1..Len(lines) : i > after /\ Includes(lines[i], header) }
  IN  IF hits = {} THEN 0 ELSE CHOOSE h \in hits : \A g \in hits : h <= g

(***************************************************************************)
(* dependency-parser.ts: the patterns.                                     *)
(***************************************************************************)
DEPENDENCIES_SECTION_START == "## Dependencies & Execution Order"
PHASE_DEPENDENCIES_HEADER == "### Phase Dependencies"
PARALLEL_OPPORTUNITIES_HEADER == "### Parallel Opportunities"

\* The tail \*\*Phase\s+(\d+)\s+\(([^)]+)\)\*\*:\s*(.+)$ of the two line patterns,
\* from position b: undefined or the groups [number, name, description].
PhaseEntryAt(line, b) ==
  LET d == SkipSpace(line, b + 7)
      e == SkipDigits(line, d)
      f == SkipSpace(line, e)
      closes == { i \in (f + 1)..Len(line) : Ch(line, i) = ")" }
      g == IF closes = {} THEN 0 ELSE CHOOSE c \in closes : \A o \in closes : c <= o
      h == SkipSpace(line, g + 4)
      \* \s* is greedy and gives one character back when nothing is left for .+
      t == IF h <= Len(line) THEN h ELSE h - 1
  IN  IF /\ LitAt(line, b, "**Phase")
         /\ d > b + 7
         /\ e > d
         /\ f > e
         /\ LitAt(line, f, "(")
         /\ g > f + 1
         /\ LitAt(line, g, ")**:")
         /\ t >= g + 4
         /\ t <= Len(line)
      THEN Some([ number |-> SubSeq(line, d, e - 1),
                  name |-> SubSeq(line, f + 1, g - 1),
                  description |-> SubSeq(line, t, Len(line)) ])
      ELSE undefined

\* /^-\s+\*\*Phase\s+(\d+)\s+\(([^)]+)\)\*\*:\s*(.+)$/
PHASE_DEP_LINE_REGEX(line) ==
  IF LitAt(line, 1, "-") /\ SkipSpace(line, 2) > 2
  THEN PhaseEntryAt(line, SkipSpace(line, 2))
  ELSE undefined

\* /^\*\*Phase\s+(\d+)\s+\([^)]+\)\*\*:\s*(.+)$/
PARALLEL_OPP_LINE_REGEX(line) == PhaseEntryAt(line, 1)

\* matchAll of a pattern  [Xx]rest(\d+)  with the g flag, from position i:
\* the captured digit strings of the matches, left to right, none overlapping.
RECURSIVE NumberedPhrases(_, _, _, _)
NumberedPhrases(s, i, first, rest) ==
  IF i > Len(s) THEN << >>
  ELSE LET d == i + 1 + Len(rest)
           e == SkipDigits(s, d)
       IN  IF Ch(s, i) \in first /\ LitAt(s, i + 1, rest) /\ e > d
           THEN << SubSeq(s, d, e - 1) >> \o NumberedPhrases(s, e, first, rest)
           ELSE NumberedPhrases(s, i + 1, first, rest)

\* description.matchAll(/[Dd]epends on Phase (\d+)/g)
DEPENDS_ON_REGEX(description) == NumberedPhrases(description, 1, { "D", "d" }, "epends on Phase ")

\* /[Dd]epends on all/i .test(description)
DEPENDS_ON_ALL_REGEX(description) ==
  \E i \in 1..Len(description) : LitAtFold(description, i, "depends on all")

\* /BLOCKS all/i .test(description)
BLOCKS_ALL_REGEX(description) ==
  \E i \in 1..Len(description) : LitAtFold(description, i, "BLOCKS all")

\* description.matchAll(/[Bb]locks Phase (\d+)/g)
BLOCKS_PHASE_REGEX(description) == NumberedPhrases(description, 1, { "B", "b" }, "locks Phase ")

\* First position >= i of s that holds neither a digit nor a slash: [\d/]*
RECURSIVE SkipDigitsAndSlashes(_, _)
SkipDigitsAndSlashes(s, i) ==
  IF i <= Len(s) /\ (IsDigit(Ch(s, i)) \/ Ch(s, i) = "/")
  THEN SkipDigitsAndSlashes(s, i + 1) ELSE i

\* /parallel to Phase[s]?\s*([\d/]+)/ at position i: undefined or the group
ParallelToAt(s, i) ==
  LET j == i + 17
      k == SkipSpace(s, IF LitAt(s, j, "s") THEN j + 1 ELSE j)
      m == SkipDigitsAndSlashes(s, k)
  IN  IF LitAt(s, i, "parallel to Phase") /\ m > k
      THEN Some(SubSeq(s, k, m - 1))
      ELSE undefined

\* description.match(/parallel to Phase[s]?\s*([\d/]+)/): the leftmost match
PARALLEL_TO_REGEX(description) ==
  LET hits == { i \in 1..Len(description) : IsDefined(ParallelToAt(description, i)) }
  IN  IF hits = {} THEN undefined
      ELSE ParallelToAt(description, CHOOSE h \in hits : \A g \in hits : h <= g)

\* description.matchAll(/T(\d+)-T(\d+)/g) from position i: the groups [start, end]
RECURSIVE TASK_RANGE_REGEX(_, _)
TASK_RANGE_REGEX(s, i) ==
  IF i > Len(s) THEN << >>
  ELSE LET e == SkipDigits(s, i + 1)
           g == SkipDigits(s, e + 2)
       IN  IF LitAt(s, i, "T") /\ e > i + 1 /\ LitAt(s, e, "-T") /\ g > e + 2
           THEN << [ start |-> SubSeq(s, i + 1, e - 1), end |-> SubSeq(s, e + 2, g - 1) ] >>
                  \o TASK_RANGE_REGEX(s, g)
           ELSE TASK_RANGE_REGEX(s, i + 1)

\* description.matchAll(/T(\d+)/g) from position i: the captured digit strings
RECURSIVE TASK_ID_REGEX(_, _)
TASK_ID_REGEX(s, i) ==
  IF i > Len(s) THEN << >>
  ELSE LET e == SkipDigits(s, i + 1)
       IN  IF LitAt(s, i, "T") /\ e > i + 1
           THEN << SubSeq(s, i + 1, e - 1) >> \o TASK_ID_REGEX(s, e)
           ELSE TASK_ID_REGEX(s, i + 1)

(***************************************************************************)
(* dependency-parser.ts: the functions.                                    *)
(***************************************************************************)
\* The identifiers T<i>, i from start to end, each padded to three digits
RECURSIVE RangeTasks(_, _)
RangeTasks(start, end) ==
  IF start > end THEN << >>
  ELSE << "T" \o PadStart(NumberToString(start), 3) >> \o RangeTasks(start + 1, end)

\* The tasks of all the ranges, in order (the first loop of extractParallelTasks)
RECURSIVE AllRangeTasks(_)
AllRangeTasks(rangeMatches) ==
  IF rangeMatches = << >> THEN << >>
  ELSE RangeTasks(ParseDigits(Head(rangeMatches).start), ParseDigits(Head(rangeMatches).end))
         \o AllRangeTasks(Tail(rangeMatches))

\* extractParallelTasks without new Set(tasks)
extractParallelTasks_Duplicates(description) ==
  LET fromRanges == AllRangeTasks(TASK_RANGE_REGEX(description, 1))
      idMatches == TASK_ID_REGEX(description, 1)
      ids == [ i \in 1..Len(idMatches) |-> "T" \o PadStart(idMatches[i], 3) ]
      NotInRange(taskId) == ~SeqIncludes(fromRanges, taskId)
      tasks == fromRanges \o SelectSeq(ids, NotInRange)
  IN  SortStrings(tasks)

\* The task identifiers of a description, ranges expanded, distinct and sorted
extractParallelTasks(description) ==
  LET fromRanges == AllRangeTasks(TASK_RANGE_REGEX(description, 1))
      idMatches == TASK_ID_REGEX(description, 1)
      ids == [ i \in 1..Len(idMatches) |-> "T" \o PadStart(idMatches[i], 3) ]
      NotInRange(taskId) == ~SeqIncludes(fromRanges, taskId)
      tasks == fromRanges \o SelectSeq(ids, NotInRange)
  IN  SortStrings(Dedupe(tasks))

\* A string of digits without its leading zeros
RECURSIVE Significant(_)
Significant(digits) ==
  IF Len(digits) > 1 /\ Ch(digits, 1) = "0"
  THEN Significant(SubSeq(digits, 2, Len(digits)))
  ELSE digits

\* What tasks.push throws when the array is full
RangeError == "RangeError: Invalid array length"

\* The first loop of extractParallelTasks pushes end - start + 1 strings, and
\* an array holds 2^32 - 1 elements at most: past that (if the heap lasts
\* that long) push throws. The numbers are beyond the integers of TLC, so
\* the digits decide: an end of 11 digits or more is at least 10^10, a start
\* of 9 digits or fewer is below 10^9, and 10^10 - 10^9 > 2^32.
InvalidArrayLength(match) ==
  /\ Len(Significant(match.end)) >= 11
  /\ Len(Significant(match.start)) <= 9

\* extractParallelTasks(description) throws: one of its ranges does not fit
extractParallelTasksThrows(description) ==
  LET Some_(rangeMatches) ==
        \E i \in 1..Len(rangeMatches) : InvalidArrayLength(rangeMatches[i])
  IN  Some_(TASK_RANGE_REGEX(description, 1))

\* ParallelPhases with break in the place of the test of isNaN: the segments
\* up to the first that is no number
ParallelPhases_Break(group) ==
  LET segments == Split(group, "/")
      parsed == [ i \in 1..Len(segments) |-> ParseInt(Trim(segments[i])) ]
      nans == { i \in 1..Len(parsed) : ~IsDefined(parsed[i]) }
      stop == IF nans = {} THEN Len(parsed) + 1 ELSE CHOOSE h \in nans : \A g \in nans : h <= g
  IN  [ i \in 1..(stop - 1) |-> Value(parsed[i]) ]

\* "6/7".split("/") parsed: parseInt(p.trim(), 10) of every segment, NaN dropped
ParallelPhases(group) ==
  LET segments == Split(group, "/")
      parsed == [ i \in 1..Len(segments) |-> ParseInt(Trim(segments[i])) ]
      numbers == SelectSeq(parsed, IsDefined)
  IN  [ i \in 1..Len(numbers) |-> Value(numbers[i]) ]

\* parsePhaseDependencyLine with <= and >= in the place of < and >
parsePhaseDependencyLine_Inclusive(line, allPhaseNumbers) ==
  LET ToNumbers(matches) == [ i \in 1..Len(matches) |-> ParseDigits(matches[i]) ]
      Parallel(parallelToMatch) ==
        IF IsDefined(parallelToMatch) THEN ParallelPhases(Value(parallelToMatch)) ELSE << >>
      Record(phaseNumber, shortName, description) ==
        LET IsBefore(n) == n <= phaseNumber
            IsAfter(n) == n >= phaseNumber
        IN  [ phaseNumber |-> phaseNumber,
              dependency |->
                [ shortName |-> shortName,
                  dependsOn |->
                    IF DEPENDS_ON_ALL_REGEX(description)
                    THEN SelectSeq(allPhaseNumbers, IsBefore)
                    ELSE ToNumbers(DEPENDS_ON_REGEX(description)),
                  blocks |->
                    IF BLOCKS_ALL_REGEX(description)
                    THEN SelectSeq(allPhaseNumbers, IsAfter)
                    ELSE ToNumbers(BLOCKS_PHASE_REGEX(description)),
                  canRunParallelWith |-> Parallel(PARALLEL_TO_REGEX(description)),
                  parallelTasks |-> << >>,
                  description |-> description ] ]
      Matched(match) ==
        IF ~IsDefined(match) THEN undefined
        ELSE Some(Record(ParseDigits(Value(match).number), Value(match).name,
                         Value(match).description))
  IN  Matched(PHASE_DEP_LINE_REGEX(line))

\* undefined (null) or [phaseNumber, dependency]
parsePhaseDependencyLine(line, allPhaseNumbers) ==
  LET ToNumbers(matches) == [ i \in 1..Len(matches) |-> ParseDigits(matches[i]) ]
      Parallel(parallelToMatch) ==
        IF IsDefined(parallelToMatch) THEN ParallelPhases(Value(parallelToMatch)) ELSE << >>
      Record(phaseNumber, shortName, description) ==
        LET IsBefore(n) == n < phaseNumber
            IsAfter(n) == n > phaseNumber
        IN  [ phaseNumber |-> phaseNumber,
              dependency |->
                [ shortName |-> shortName,
                  dependsOn |->
                    IF DEPENDS_ON_ALL_REGEX(description)
                    THEN SelectSeq(allPhaseNumbers, IsBefore)
                    ELSE ToNumbers(DEPENDS_ON_REGEX(description)),
                  blocks |->
                    IF BLOCKS_ALL_REGEX(description)
                    THEN SelectSeq(allPhaseNumbers, IsAfter)
                    ELSE ToNumbers(BLOCKS_PHASE_REGEX(description)),
                  canRunParallelWith |-> Parallel(PARALLEL_TO_REGEX(description)),
                  parallelTasks |-> << >>,
                  description |-> description ] ]
      Matched(match) ==
        IF ~IsDefined(match) THEN undefined
        ELSE Some(Record(ParseDigits(Value(match).number), Value(match).name,
                         Value(match).description))
  IN  Matched(PHASE_DEP_LINE_REGEX(line))

\* Map<number, string[]> of the lines of the Parallel Opportunities section
RECURSIVE parseParallelOpportunities(_)
parseParallelOpportunities(lines) ==
  IF lines = << >> THEN << >>
  ELSE LET result == parseParallelOpportunities(SubSeq(lines, 1, Len(lines) - 1))
           Set(phaseNumber, tasks) ==
             IF Len(tasks) > 0 THEN MapSet(result, phaseNumber, tasks) ELSE result
           Matched(match) ==
             IF IsDefined(match)
             THEN Set(ParseDigits(Value(match).number),
                      extractParallelTasks(Value(match).description))
             ELSE result
       IN  Matched(PARALLEL_OPP_LINE_REGEX(lines[Len(lines)]))

\* The phase numbers of every line of the document that matches
\* PHASE_DEP_LINE_REGEX, in document order
AllPhaseNumbers(lines) ==
  LET Matches(l) == IsDefined(PHASE_DEP_LINE_REGEX(l))
      matching == SelectSeq(lines, Matches)
  IN  [ i \in 1..Len(matching) |-> ParseDigits(Value(PHASE_DEP_LINE_REGEX(matching[i])).number) ]

\* The loop over lines[i .. endIndex - 1] of the Phase Dependencies section
RECURSIVE PhaseDependenciesLoop(_, _, _, _, _)
PhaseDependenciesLoop(lines, i, endIndex, allPhaseNumbers, result) ==
  IF i >= endIndex THEN result
  ELSE LET line == lines[i]
           Set(parsed) ==
             IF IsDefined(parsed)
             THEN MapSet(result, Value(parsed).phaseNumber, Value(parsed).dependency)
             ELSE result
       IN  IF StartsWith(line, "###") \/ StartsWith(line, "## ") THEN result
           ELSE IF Trim(line) = "" THEN
             PhaseDependenciesLoop(lines, i + 1, endIndex, allPhaseNumbers, result)
           ELSE PhaseDependenciesLoop(lines, i + 1, endIndex, allPhaseNumbers,
                  Set(parsePhaseDependencyLine(line, allPhaseNumbers)))

\* The non-empty lines lines[i ..] of the Parallel Opportunities section
RECURSIVE ParallelLines(_, _)
ParallelLines(lines, i) ==
  IF i > Len(lines) THEN << >>
  ELSE LET line == lines[i]
       IN  IF StartsWith(line, "---") \/ StartsWith(line, "## ") THEN << >>
           ELSE IF Trim(line) = "" THEN ParallelLines(lines, i + 1)
           ELSE << line >> \o ParallelLines(lines, i + 1)

\* MergeParallelTasks that sets the placeholder record also where a record exists
RECURSIVE MergeParallelTasks_Replace(_, _)
MergeParallelTasks_Replace(result, parallelTasks) ==
  IF parallelTasks = << >> THEN result
  ELSE LET phaseNum == Head(parallelTasks).key
           tasks == Head(parallelTasks).value
       IN  MergeParallelTasks_Replace(
             MapSet(result, phaseNum,
                    [ shortName |-> "",
                      dependsOn |-> << >>,
                      blocks |-> << >>,
                      canRunParallelWith |-> << >>,
                      parallelTasks |-> tasks,
                      description |-> "" ]),
             Tail(parallelTasks))

\* Merge the parallel tasks into the dependency records
RECURSIVE MergeParallelTasks(_, _)
MergeParallelTasks(result, parallelTasks) ==
  IF parallelTasks = << >> THEN result
  ELSE LET phaseNum == Head(parallelTasks).key
           tasks == Head(parallelTasks).value
           existing == MapGet(result, phaseNum)
       IN  MergeParallelTasks(
             IF IsDefined(existing)
             THEN MapSet(result, phaseNum, [ Value(existing) EXCEPT !.parallelTasks = tasks ])
             ELSE MapSet(result, phaseNum,
                         [ shortName |-> "",
                           dependsOn |-> << >>,
                           blocks |-> << >>,
                           canRunParallelWith |-> << >>,
                           parallelTasks |-> tasks,
                           description |-> "" ]),
             Tail(parallelTasks))

\* The reverse relationships with the test of includes inverted: nothing new
\* is ever pushed
RECURSIVE BuildReverseRelationships_Inverted(_, _, _)
BuildReverseRelationships_Inverted(result, e, j) ==
  IF e > Len(result) THEN result
  ELSE IF j > Len(result[e].value.dependsOn)
  THEN BuildReverseRelationships_Inverted(result, e + 1, 1)
  ELSE LET phaseNum == result[e].key
           dependsOnPhase == result[e].value.dependsOn[j]
           blocker == MapGet(result, dependsOnPhase)
       IN  BuildReverseRelationships_Inverted(
             IF IsDefined(blocker) /\ SeqIncludes(Value(blocker).blocks, phaseNum)
             THEN MapSet(result, dependsOnPhase,
                         [ Value(blocker) EXCEPT !.blocks = Append(@, phaseNum) ])
             ELSE result,
             e, j + 1)

\* The reverse relationships that set a record for a blocker that has none
RECURSIVE BuildReverseRelationships_Creates(_, _, _)
BuildReverseRelationships_Creates(result, e, j) ==
  IF e > Len(result) THEN result
  ELSE IF j > Len(result[e].value.dependsOn)
  THEN BuildReverseRelationships_Creates(result, e + 1, 1)
  ELSE LET phaseNum == result[e].key
           dependsOnPhase == result[e].value.dependsOn[j]
           blocker == MapGet(result, dependsOnPhase)
       IN  BuildReverseRelationships_Creates(
             IF IsDefined(blocker) /\ ~SeqIncludes(Value(blocker).blocks, phaseNum)
             THEN MapSet(result, dependsOnPhase,
                         [ Value(blocker) EXCEPT !.blocks = Append(@, phaseNum) ])
             ELSE IF ~IsDefined(blocker)
             THEN MapSet(result, dependsOnPhase,
                         [ shortName |-> "",
                           dependsOn |-> << >>,
                           blocks |-> << phaseNum >>,
                           canRunParallelWith |-> << >>,
                           parallelTasks |-> << >>,
                           description |-> "" ])
             ELSE result,
             e, j + 1)

\* blocker.blocks.push(phaseNum) for the dependsOn[j ..] of entry e, then for
\* the entries after e: if A depends on B, then B blocks A
RECURSIVE BuildReverseRelationships(_, _, _)
BuildReverseRelationships(result, e, j) ==
  IF e > Len(result) THEN result
  ELSE IF j > Len(result[e].value.dependsOn) THEN BuildReverseRelationships(result, e + 1, 1)
  ELSE LET phaseNum == result[e].key
           dependsOnPhase == result[e].value.dependsOn[j]
           blocker == MapGet(result, dependsOnPhase)
       IN  BuildReverseRelationships(
             IF IsDefined(blocker) /\ ~SeqIncludes(Value(blocker).blocks, phaseNum)
             THEN MapSet(result, dependsOnPhase,
                         [ Value(blocker) EXCEPT !.blocks = Append(@, phaseNum) ])
             ELSE result,
             e, j + 1)

\* dep.blocks.sort((a, b) => a - b) for every record
SortBlocks(result) ==
  [ i \in 1..Len(result) |->
      [ result[i] EXCEPT !.value.blocks = SortNumbers(@) ] ]

\* parseDependencies without the return where the section marker is missing
parseDependencies_Unmarked(content) ==
  LET Subsections(lines, depSectionStart, phaseDepsStart, parallelOppStart) ==
        LET endIndex == IF parallelOppStart # 0 THEN parallelOppStart ELSE Len(lines) + 1
            Merge(result) ==
              IF parallelOppStart # 0
              THEN MergeParallelTasks(result,
                     parseParallelOpportunities(ParallelLines(lines, parallelOppStart + 1)))
              ELSE result
        IN  Merge(IF phaseDepsStart # 0
                  THEN PhaseDependenciesLoop(lines, phaseDepsStart + 1, endIndex,
                                             AllPhaseNumbers(lines), << >>)
                  ELSE << >>)
      Section(lines, depSectionStart) ==
        IF FALSE THEN << >>
        ELSE SortBlocks(BuildReverseRelationships(
               Subsections(lines, depSectionStart,
                        FindIndex(lines, depSectionStart, PHASE_DEPENDENCIES_HEADER),
                        FindIndex(lines, depSectionStart, PARALLEL_OPPORTUNITIES_HEADER)),
               1, 1))
      Lines(lines) == Section(lines, FindIndex(lines, 0, DEPENDENCIES_SECTION_START))
  IN  Lines(Split(content, "\n"))

\* Map<number, PhaseDependency>
parseDependencies(content) ==
  LET Subsections(lines, depSectionStart, phaseDepsStart, parallelOppStart) ==
        LET endIndex == IF parallelOppStart # 0 THEN parallelOppStart ELSE Len(lines) + 1
            Merge(result) ==
              IF parallelOppStart # 0
              THEN MergeParallelTasks(result,
                     parseParallelOpportunities(ParallelLines(lines, parallelOppStart + 1)))
              ELSE result
        IN  Merge(IF phaseDepsStart # 0
                  THEN PhaseDependenciesLoop(lines, phaseDepsStart + 1, endIndex,
                                             AllPhaseNumbers(lines), << >>)
                  ELSE << >>)
      Section(lines, depSectionStart) ==
        IF depSectionStart = 0 THEN << >>
        ELSE SortBlocks(BuildReverseRelationships(
               Subsections(lines, depSectionStart,
                        FindIndex(lines, depSectionStart, PHASE_DEPENDENCIES_HEADER),
                        FindIndex(lines, depSectionStart, PARALLEL_OPPORTUNITIES_HEADER)),
               1, 1))
      Lines(lines) == Section(lines, FindIndex(lines, 0, DEPENDENCIES_SECTION_START))
  IN  Lines(Split(content, "\n"))

\* parseDependencies(content) throws: a line of the Parallel Opportunities
\* section that parseParallelOpportunities extracts the tasks of has a range
\* that does not fit. Nothing else in the call throws.
parseDependenciesThrows(content) ==
  LET LineThrows(match) ==
        IsDefined(match) /\ extractParallelTasksThrows(Value(match).description)
      AnyThrows(section) ==
        \E i \in 1..Len(section) : LineThrows(PARALLEL_OPP_LINE_REGEX(section[i]))
      Subsections(lines, parallelOppStart) ==
        parallelOppStart # 0 /\ AnyThrows(ParallelLines(lines, parallelOppStart + 1))
      Section(lines, depSectionStart) ==
        /\ depSectionStart # 0
        /\ Subsections(lines, FindIndex(lines, depSectionStart, PARALLEL_OPPORTUNITIES_HEADER))
      Lines(lines) == Section(lines, FindIndex(lines, 0, DEPENDENCIES_SECTION_START))
  IN  Lines(Split(content, "\n"))

\* calculateAvailablePhases with some in the place of every
calculateAvailablePhases_Some(phases) ==
  LET completedPhases == { phases[i].number : i \in { k \in 1..Len(phases) : phases[k].isComplete } }
      CanStart(phase) ==
        /\ ~phase.isComplete
        /\ LET dep == phase.dependency
           IN  \/ ~IsDefined(dep)
               \/ Len(Value(dep).dependsOn) = 0
               \/ \E k \in 1..Len(Value(dep).dependsOn) : Value(dep).dependsOn[k] \in completedPhases
      available == SelectSeq(phases, CanStart)
  IN  SortNumbers([ i \in 1..Len(available) |-> available[i].number ])

\* calculateAvailablePhases without the final sort
calculateAvailablePhases_Unsorted(phases) ==
  LET completedPhases == { phases[i].number : i \in { k \in 1..Len(phases) : phases[k].isComplete } }
      CanStart(phase) ==
        /\ ~phase.isComplete
        /\ LET dep == phase.dependency
           IN  \/ ~IsDefined(dep)
               \/ Len(Value(dep).dependsOn) = 0
               \/ \A k \in 1..Len(Value(dep).dependsOn) : Value(dep).dependsOn[k] \in completedPhases
      available == SelectSeq(phases, CanStart)
  IN  [ i \in 1..Len(available) |-> available[i].number ]

\* calculateAvailablePhases with the filter of completedPhases inverted: the
\* numbers of the phases that are not complete
calculateAvailablePhases_Inverted(phases) ==
  LET completedPhases == { phases[i].number : i \in { k \in 1..Len(phases) : ~phases[k].isComplete } }
      CanStart(phase) ==
        /\ ~phase.isComplete
        /\ LET dep == phase.dependency
           IN  \/ ~IsDefined(dep)
               \/ Len(Value(dep).dependsOn) = 0
               \/ \A k \in 1..Len(Value(dep).dependsOn) : Value(dep).dependsOn[k] \in completedPhases
      available == SelectSeq(phases, CanStart)
  IN  SortNumbers([ i \in 1..Len(available) |-> available[i].number ])

\* The numbers of the phases that can be started
calculateAvailablePhases(phases) ==
  LET completedPhases == { phases[i].number : i \in { k \in 1..Len(phases) : phases[k].isComplete } }
      CanStart(phase) ==
        /\ ~phase.isComplete
        /\ LET dep == phase.dependency
           IN  \/ ~IsDefined(dep)
               \/ Len(Value(dep).dependsOn) = 0
               \/ \A k \in 1..Len(Value(dep).dependsOn) : Value(dep).dependsOn[k] \in completedPhases
      available == SelectSeq(phases, CanStart)
  IN  SortNumbers([ i \in 1..Len(available) |-> available[i].number ])

\* path.join(specFolder, TASKS_FILENAME) of a folder written without a
\* trailing separator
join(folder, name) == folder \o "/" \o name

\* First position >= i of s that holds none of [a-z0-9-]
RECURSIVE SkipSpecId(_, _)
SkipSpecId(s, i) ==
  IF i <= Len(s) /\ (IsDigit(Ch(s, i)) \/ Ch(s, i) = "-"
                       \/ \E k \in 1..26 : Ch(s, i) = Ch("abcdefghijklmnopqrstuvwxyz", k))
  THEN SkipSpecId(s, i + 1) ELSE i

\* branch.match(/(\d{3}-[a-z0-9-]+)/): the group of the leftmost match
SpecIdMatch(branch) ==
  LET At(i) == /\ i + 4 <= Len(branch)
               /\ \A k \in 0..2 : IsDigit(Ch(branch, i + k))
               /\ Ch(branch, i + 3) = "-"
               /\ SkipSpecId(branch, i + 4) > i + 4
      hits == { i \in 1..Len(branch) : At(i) }
      first == CHOOSE h \in hits : \A g \in hits : h <= g
  IN  IF hits = {} THEN undefined
      ELSE Some(SubSeq(branch, first, SkipSpecId(branch, first + 4) - 1))

\* git-utils: the spec folder of the branch that getCurrentBranch returns
\* (undefined is null), where existing is what existsSync finds
getSpecFolderFromBranch(branch, cwd, specsDir, existing) ==
  LET directPath == join(join(cwd, specsDir), Value(branch))
      specId == SpecIdMatch(Value(branch))
      specPath == join(join(cwd, specsDir), Value(specId))
  IN  IF ~IsDefined(branch) \/ Value(branch) = "" THEN undefined
      ELSE IF directPath \in existing THEN Some(directPath)
      ELSE IF IsDefined(specId) /\ specPath \in existing THEN Some(specPath)
      ELSE undefined

\* git-utils: the last segment of the path, split at / and \
getSpecName(specFolder) ==
  LET seps == { i \in 1..Len(specFolder) : Ch(specFolder, i) \in { "/", "\\" } }
      last == IF seps = {} THEN 0 ELSE CHOOSE m \in seps : \A n \in seps : m >= n
  IN  SubSeq(specFolder, last + 1, Len(specFolder))

(***************************************************************************)
(* parser.ts: parseTasksFile.                                              *)
(***************************************************************************)
\* phases.reduce((sum, p) => sum + p[field], 0)
RECURSIVE SumOf(_, _)
SumOf(phases, field) ==
  IF phases = << >> THEN 0 ELSE phases[1][field] + SumOf(Tail(phases), field)

\* findLast in the place of find
FirstIncomplete_Last(phases) ==
  LET IsIncomplete(p) == ~p.isComplete
      hits == SelectSeq(phases, IsIncomplete)
  IN  IF hits = << >> THEN undefined ELSE Some(hits[Len(hits)])

\* phases.find((p) => !p.isComplete): the first such phase, or undefined
FirstIncomplete(phases) ==
  LET IsIncomplete(p) == ~p.isComplete
      hits == SelectSeq(phases, IsIncomplete)
  IN  IF hits = << >> THEN undefined ELSE Some(Head(hits))

\* AttachDependencies by position: the i-th phase gets the i-th record
AttachDependencies_ByPosition(phases, dependencies) ==
  [ i \in 1..Len(phases) |->
      IF i <= Len(dependencies)
      THEN [ phases[i] EXCEPT !.dependency = Some(dependencies[i].value) ]
      ELSE phases[i] ]

\* phase.dependency = dependencies.get(phase.number), for the numbers it has
AttachDependencies(phases, dependencies) ==
  [ i \in 1..Len(phases) |->
      IF IsDefined(MapGet(dependencies, phases[i].number))
      THEN [ phases[i] EXCEPT !.dependency = MapGet(dependencies, phases[i].number) ]
      ELSE phases[i] ]

\* ParseResult.  Nothing in parseTasksFile assigns nextTask.
parseTasksFile(content, specFolder) ==
  LET Available(phases, availablePhaseNumbers) ==
        LET IsAvailable(p) == SeqIncludes(availablePhaseNumbers, p.number) /\ ~p.isComplete
        IN  SelectSeq(phases, IsAvailable)
      Result(phases) ==
        [ specFolder |-> specFolder,
          specName |-> getSpecName(specFolder),
          phases |-> phases,
          totalTasks |-> SumOf(phases, "totalCount"),
          completedTasks |-> SumOf(phases, "completedCount"),
          availablePhases |-> Available(phases, calculateAvailablePhases(phases)),
          nextPhase |-> FirstIncomplete(phases),
          nextTask |-> undefined ]
  IN  Result(AttachDependencies(ScanLines(Split(content, "\n"), 1, << >>, undefined),
                                parseDependencies(content)))

(***************************************************************************)
(* The calls within one process. The regular expressions are module-level  *)
(* objects, and one with the g flag keeps in lastIndex where its last      *)
(* test ended and starts the next one there. index is lastIndex of each,   *)
(* counted from 0; a call returns [returned, lastIndex].                    *)
(***************************************************************************)
\* The module-level regular expressions of parser.ts and dependency-parser.ts
RegularExpressions ==
  { "PHASE_HEADER_REGEX", "TASK_LINE_REGEX", "PHASE_DEP_LINE_REGEX",
    "DEPENDS_ON_REGEX", "DEPENDS_ON_ALL_REGEX", "BLOCKS_ALL_REGEX",
    "BLOCKS_PHASE_REGEX", "PARALLEL_TO_REGEX", "PARALLEL_OPP_LINE_REGEX",
    "TASK_ID_REGEX", "TASK_RANGE_REGEX" }

\* Flags with the g flag on DEPENDS_ON_ALL_REGEX too
Flags_GlobalTest ==
  [ r \in RegularExpressions |->
      IF r \in { "DEPENDS_ON_REGEX", "BLOCKS_PHASE_REGEX", "TASK_ID_REGEX", "TASK_RANGE_REGEX" }
      THEN "g"
      ELSE IF r = "DEPENDS_ON_ALL_REGEX" THEN "gi"
      ELSE IF r = "BLOCKS_ALL_REGEX" THEN "i"
      ELSE "" ]

\* The flags of the regular expression literals
Flags ==
  [ r \in RegularExpressions |->
      IF r \in { "DEPENDS_ON_REGEX", "BLOCKS_PHASE_REGEX", "TASK_ID_REGEX", "TASK_RANGE_REGEX" }
      THEN "g"
      ELSE IF r \in { "DEPENDS_ON_ALL_REGEX", "BLOCKS_ALL_REGEX" } THEN "i"
      ELSE "" ]

IsGlobal(r) == Includes(Flags[r], "g")

\* r.test(s) for r = /lit/i with or without g: with g the search starts at
\* lastIndex and leaves in it the end of the match, or 0 when there is none;
\* without g it starts at 0 and leaves lastIndex alone
Test(r, lit, s, index) ==
  LET Found(hits) ==
        [ found |-> hits # {},
          lastIndex |->
            IF ~IsGlobal(r) THEN index
            ELSE IF hits = {} THEN [ index EXCEPT ![r] = 0 ]
            ELSE [ index EXCEPT ![r] = (CHOOSE h \in hits : \A g \in hits : h <= g)
                                          - 1 + Len(lit) ] ]
      From(start) == Found({ i \in (start + 1)..Len(s) : LitAtFold(s, i, lit) })
  IN  From(IF IsGlobal(r) THEN index[r] ELSE 0)

\* parsePhaseDependencyLine as a call: s.matchAll(r) copies r with its
\* lastIndex and searches from there, s.match(r) of an r without g starts at
\* 0, and neither writes lastIndex
parsePhaseDependencyLineCall(line, allPhaseNumbers, index) ==
  LET ToNumbers(matches) == [ i \in 1..Len(matches) |-> ParseDigits(matches[i]) ]
      Parallel(parallelToMatch) ==
        IF IsDefined(parallelToMatch) THEN ParallelPhases(Value(parallelToMatch)) ELSE << >>
      Record(phaseNumber, shortName, description, dependsOnAll, blocksAll) ==
        LET IsBefore(n) == n < phaseNumber
            IsAfter(n) == n > phaseNumber
        IN  [ returned |->
                Some([ phaseNumber |-> phaseNumber,
                       dependency |->
                         [ shortName |-> shortName,
                           dependsOn |->
                             IF dependsOnAll.found
                             THEN SelectSeq(allPhaseNumbers, IsBefore)
                             ELSE ToNumbers(NumberedPhrases(description,
                                    dependsOnAll.lastIndex["DEPENDS_ON_REGEX"] + 1,
                                    { "D", "d" }, "epends on Phase ")),
                           blocks |->
                             IF blocksAll.found
                             THEN SelectSeq(allPhaseNumbers, IsAfter)
                             ELSE ToNumbers(NumberedPhrases(description,
                                    blocksAll.lastIndex["BLOCKS_PHASE_REGEX"] + 1,
                                    { "B", "b" }, "locks Phase ")),
                           canRunParallelWith |-> Parallel(PARALLEL_TO_REGEX(description)),
                           parallelTasks |-> << >>,
                           description |-> description ] ]),
              lastIndex |-> blocksAll.lastIndex ]
      Tested(phaseNumber, shortName, description, dependsOnAll) ==
        Record(phaseNumber, shortName, description, dependsOnAll,
               Test("BLOCKS_ALL_REGEX", "BLOCKS all", description, dependsOnAll.lastIndex))
      Matched(match) ==
        IF ~IsDefined(match) THEN [ returned |-> undefined, lastIndex |-> index ]
        ELSE Tested(ParseDigits(Value(match).number), Value(match).name,
                    Value(match).description,
                    Test("DEPENDS_ON_ALL_REGEX", "depends on all",
                         Value(match).description, index))
  IN  Matched(PHASE_DEP_LINE_REGEX(line))

\* The loop over lines[i .. endIndex - 1] of the Phase Dependencies section,
\* each line parsed with the lastIndex the line before left
RECURSIVE PhaseDependenciesLoopCall(_, _, _, _, _, _)
PhaseDependenciesLoopCall(lines, i, endIndex, allPhaseNumbers, result, index) ==
  IF i >= endIndex THEN [ returned |-> result, lastIndex |-> index ]
  ELSE LET line == lines[i]
           Set(parsed) ==
             PhaseDependenciesLoopCall(lines, i + 1, endIndex, allPhaseNumbers,
               IF IsDefined(parsed.returned)
               THEN MapSet(result, Value(parsed.returned).phaseNumber,
                           Value(parsed.returned).dependency)
               ELSE result,
               parsed.lastIndex)
       IN  IF StartsWith(line, "###") \/ StartsWith(line, "## ")
           THEN [ returned |-> result, lastIndex |-> index ]
           ELSE IF Trim(line) = "" THEN
             PhaseDependenciesLoopCall(lines, i + 1, endIndex, allPhaseNumbers, result, index)
           ELSE Set(parsePhaseDependencyLineCall(line, allPhaseNumbers, index))

\* extractParallelTasks as a call: both matchAll start at lastIndex
extractParallelTasksCall(description, index) ==
  LET fromRanges ==
        AllRangeTasks(TASK_RANGE_REGEX(description, index["TASK_RANGE_REGEX"] + 1))
      idMatches == TASK_ID_REGEX(description, index["TASK_ID_REGEX"] + 1)
      ids == [ i \in 1..Len(idMatches) |-> "T" \o PadStart(idMatches[i], 3) ]
      NotInRange(taskId) == ~SeqIncludes(fromRanges, taskId)
      tasks == fromRanges \o SelectSeq(ids, NotInRange)
  IN  SortStrings(Dedupe(tasks))

\* parseParallelOpportunities as a call
RECURSIVE parseParallelOpportunitiesCall(_, _)
parseParallelOpportunitiesCall(lines, index) ==
  IF lines = << >> THEN << >>
  ELSE LET result == parseParallelOpportunitiesCall(SubSeq(lines, 1, Len(lines) - 1), index)
           Set(phaseNumber, tasks) ==
             IF Len(tasks) > 0 THEN MapSet(result, phaseNumber, tasks) ELSE result
           Matched(match) ==
             IF IsDefined(match)
             THEN Set(ParseDigits(Value(match).number),
                      extractParallelTasksCall(Value(match).description, index))
             ELSE result
       IN  Matched(PARALLEL_OPP_LINE_REGEX(lines[Len(lines)]))

\* parseDependencies as a call
parseDependenciesCall(content, index) ==
  LET Merged(lines, parallelOppStart, loop) ==
        [ returned |->
            SortBlocks(BuildReverseRelationships(
              IF parallelOppStart # 0
              THEN MergeParallelTasks(loop.returned,
                     parseParallelOpportunitiesCall(ParallelLines(lines, parallelOppStart + 1),
                                                    loop.lastIndex))
              ELSE loop.returned,
              1, 1)),
          lastIndex |-> loop.lastIndex ]
      Subsections(lines, phaseDepsStart, parallelOppStart) ==
        Merged(lines, parallelOppStart,
               IF phaseDepsStart # 0
               THEN PhaseDependenciesLoopCall(lines, phaseDepsStart + 1,
                      IF parallelOppStart # 0 THEN parallelOppStart ELSE Len(lines) + 1,
                      AllPhaseNumbers(lines), << >>, index)
               ELSE [ returned |-> << >>, lastIndex |-> index ])
      Section(lines, depSectionStart) ==
        IF depSectionStart = 0 THEN [ returned |-> << >>, lastIndex |-> index ]
        ELSE Subsections(lines,
                         FindIndex(lines, depSectionStart, PHASE_DEPENDENCIES_HEADER),
                         FindIndex(lines, depSectionStart, PARALLEL_OPPORTUNITIES_HEADER))
      Lines(lines) == Section(lines, FindIndex(lines, 0, DEPENDENCIES_SECTION_START))
  IN  Lines(Split(content, "\n"))

\* parseTasksFile as a call: the two line patterns have no g flag, so the
\* scan starts every match at 0; the call of parseDependencies is the call above
parseTasksFileCall(content, specFolder, index) ==
  LET Available(phases, availablePhaseNumbers) ==
        LET IsAvailable(p) == SeqIncludes(availablePhaseNumbers, p.number) /\ ~p.isComplete
        IN  SelectSeq(phases, IsAvailable)
      Result(phases) ==
        [ specFolder |-> specFolder,
          specName |-> getSpecName(specFolder),
          phases |-> phases,
          totalTasks |-> SumOf(phases, "totalCount"),
          completedTasks |-> SumOf(phases, "completedCount"),
          availablePhases |-> Available(phases, calculateAvailablePhases(phases)),
          nextPhase |-> FirstIncomplete(phases),
          nextTask |-> undefined ]
      Called(dependencies) ==
        [ returned |-> Result(AttachDependencies(
                         ScanLines(Split(content, "\n"), 1, << >>, undefined),
                         dependencies.returned)),
          lastIndex |-> dependencies.lastIndex ]
  IN  Called(parseDependenciesCall(content, index))

(***************************************************************************)
(* formatter.ts: the terminal output. The escape character and the box     *)
(* drawing characters are written as the source writes them, \x1b and    *)
(* \u2502, one written form per character. What formatOutput and         *)
(* formatJSON print is the sequence of the arguments of console.log.       *)
(***************************************************************************)
COLORS ==
  [ green |-> "\\x1b[32m", yellow |-> "\\x1b[33m", red |-> "\\x1b[31m",
    cyan |-> "\\x1b[36m", magenta |-> "\\x1b[35m", dim |-> "\\x1b[2m",
    reset |-> "\\x1b[0m", bold |-> "\\x1b[1m" ]

BOX ==
  [ vertical |-> "\\u2502", horizontal |-> "\\u2500", corner |-> "\\u2514",
    tee |-> "\\u251C", arrow |-> "\\u2192", check |-> "\\u2713", bullet |-> "\\u2022" ]

\* String.prototype.repeat(count)
RECURSIVE Repeat(_, _)
Repeat(s, count) == IF count <= 0 THEN "" ELSE s \o Repeat(s, count - 1)

\* Math.round(num / den) of naturals, den > 0: a half rounds up
Round(num, den) == (2 * num + den) \div (2 * den)

\* Array.prototype.join(sep) of strings
RECURSIVE JoinWith(_, _)
JoinWith(seq, sep) ==
  IF seq = << >> THEN ""
  ELSE IF Len(seq) = 1 THEN seq[1]
  ELSE seq[1] \o sep \o JoinWith(Tail(seq), sep)

\* phases.find((p) => p.number === n): the first such phase, or undefined
FindPhase(phases, n) ==
  LET hits == { i \in 1..Len(phases) : phases[i].number = n }
  IN  IF hits = {} THEN undefined
      ELSE Some(phases[CHOOSE h \in hits : \A g \in hits : h <= g])

formatProgressBar(completed, total, width) ==
  LET filled == IF total > 0 THEN Round(completed * width, total) ELSE 0
  IN  Repeat("\\u2588", filled) \o Repeat("\\u2591", width - filled)

\* The numbers of dep.dependsOn whose phase is found and incomplete
BlockedBy(phase, phases) ==
  LET IsBlocking(d) ==
        IsDefined(FindPhase(phases, d)) /\ ~Value(FindPhase(phases, d)).isComplete
  IN  IF IsDefined(phase.dependency)
      THEN SelectSeq(Value(phase.dependency).dependsOn, IsBlocking)
      ELSE << >>

formatPhaseStatus(phase, phases, showDeps) ==
  LET statusColor == IF phase.isComplete THEN COLORS.green ELSE COLORS.yellow
      checkmark == IF phase.isComplete THEN " " \o BOX.check ELSE ""
      blockedBy == BlockedBy(phase, phases)
      depIndicator ==
        IF showDeps /\ IsDefined(phase.dependency) /\ ~phase.isComplete
           /\ Len(blockedBy) > 0
        THEN " " \o COLORS.red \o "[blocked by "
               \o JoinWith([ i \in 1..Len(blockedBy) |-> "P" \o NumberToString(blockedBy[i]) ],
                           ", ")
               \o "]" \o COLORS.reset
        ELSE ""
  IN  statusColor \o "Phase " \o NumberToString(phase.number) \o ":" \o COLORS.reset
        \o " " \o phase.title \o " " \o COLORS.dim
        \o "[" \o NumberToString(phase.completedCount) \o "/"
        \o NumberToString(phase.totalCount) \o "]" \o COLORS.reset
        \o statusColor \o checkmark \o COLORS.reset \o depIndicator

formatTaskLine(task) ==
  LET checkbox == IF task.completed
                  THEN COLORS.green \o "[\\u2713]" \o COLORS.reset
                  ELSE COLORS.dim \o "[ ]" \o COLORS.reset
      titleColor == IF task.completed THEN COLORS.dim ELSE ""
      titleReset == IF task.completed THEN COLORS.reset ELSE ""
  IN  "  " \o checkbox \o " " \o COLORS.cyan \o task.id \o COLORS.reset
        \o " " \o titleColor \o task.title \o titleReset

\* The lines of the dependency tree of a phase: at most one each for what it
\* depends on, what it blocks and its parallel tasks
formatPhaseDependencyInfo(phase, phases) ==
  LET DepStatus(d) ==
        LET depPhase == FindPhase(phases, d)
            isComplete == IsDefined(depPhase) /\ Value(depPhase).isComplete
            status == IF isComplete
                      THEN COLORS.green \o BOX.check \o COLORS.reset
                      ELSE COLORS.yellow \o "..." \o COLORS.reset
            name == IF ~IsDefined(depPhase) THEN ""
                    ELSE IF IsDefined(Value(depPhase).dependency)
                    THEN Value(Value(depPhase).dependency).shortName
                    ELSE Value(depPhase).title
        IN  "P" \o NumberToString(d) \o " " \o COLORS.dim \o "(" \o name \o ")"
              \o COLORS.reset \o " " \o status
      BlockName(b) ==
        LET blockPhase == FindPhase(phases, b)
            name == IF IsDefined(blockPhase) /\ IsDefined(Value(blockPhase).dependency)
                    THEN Value(Value(blockPhase).dependency).shortName
                    ELSE ""
        IN  "P" \o NumberToString(b)
              \o (IF name # "" THEN " " \o COLORS.dim \o "(" \o name \o ")" \o COLORS.reset
                  ELSE "")
      Lines(dep) ==
        (IF Len(dep.dependsOn) > 0
         THEN << "  " \o COLORS.dim \o BOX.tee \o BOX.horizontal \o " Depends on:"
                   \o COLORS.reset \o " "
                   \o JoinWith([ i \in 1..Len(dep.dependsOn) |-> DepStatus(dep.dependsOn[i]) ],
                               ", ") >>
         ELSE << >>)
        \o (IF Len(dep.blocks) > 0
            THEN << "  " \o COLORS.dim \o BOX.tee \o BOX.horizontal \o " Blocks:"
                      \o COLORS.reset \o " "
                      \o JoinWith([ i \in 1..Len(dep.blocks) |-> BlockName(dep.blocks[i]) ],
                                  ", ") >>
            ELSE << >>)
        \o (IF Len(dep.parallelTasks) > 0
            THEN << "  " \o COLORS.dim \o BOX.corner \o BOX.horizontal \o " Parallel tasks:"
                      \o COLORS.reset \o " " \o COLORS.cyan
                      \o (IF Len(dep.parallelTasks) > 6
                          THEN JoinWith(SubSeq(dep.parallelTasks, 1, 6), ", ") \o "... ("
                                 \o NumberToString(Len(dep.parallelTasks)) \o " total)"
                          ELSE JoinWith(dep.parallelTasks, ", "))
                      \o COLORS.reset >>
            ELSE << >>)
  IN  IF IsDefined(phase.dependency) THEN Lines(Value(phase.dependency)) ELSE << >>

\* String(n) of a number that may be NaN (undefined here, as ParseInt gives it)
NumberText(n) == IF IsDefined(n) THEN NumberToString(Value(n)) ELSE "NaN"

\* The task lines of a phase shown alone: options.showAll ?? !task.completed
ShownTasks(phase, options) ==
  LET IsShown(task) ==
        IF IsDefined(options.showAll) THEN Value(options.showAll) ELSE ~task.completed
  IN  SelectSeq(phase.tasks, IsShown)

\* The lines of the phase list: one phase in full, or every phase in a line
PhaseList(phases, options) ==
  LET number == Value(options.phase)
      phase == IF IsDefined(number) THEN FindPhase(phases, Value(number)) ELSE undefined
      shown == ShownTasks(Value(phase), options)
  IN  IF IsDefined(options.phase)
      THEN IF IsDefined(phase)
           THEN << formatPhaseStatus(Value(phase), phases, FALSE) >>
                  \o formatPhaseDependencyInfo(Value(phase), phases)
                  \o << "" >>
                  \o [ i \in 1..Len(shown) |-> formatTaskLine(shown[i]) ]
           ELSE << COLORS.red \o "Phase " \o NumberText(number) \o " not found"
                     \o COLORS.reset >>
      ELSE [ i \in 1..Len(phases) |-> formatPhaseStatus(phases[i], phases, TRUE) ]

\* The lines of the next phase recommendation
Recommendation(nextPhase, phases, availablePhases) ==
  LET IsPending(t) == ~t.completed
      pending == SelectSeq(nextPhase.tasks, IsPending)
      IsOther(p) == p.number # nextPhase.number
      otherAvailable == SelectSeq(availablePhases, IsOther)
      Other(phase) ==
        LET depOn == IF IsDefined(phase.dependency)
                     THEN Value(phase.dependency).dependsOn ELSE << >>
            afterInfo ==
              IF Len(depOn) > 0
              THEN " " \o COLORS.dim \o "(after P"
                     \o JoinWith([ i \in 1..Len(depOn) |-> NumberToString(depOn[i]) ], ", P")
                     \o ")" \o COLORS.reset
              ELSE ""
        IN  "  " \o COLORS.magenta \o BOX.bullet \o COLORS.reset \o " Phase "
              \o NumberToString(phase.number) \o ": "
              \o (IF IsDefined(phase.dependency) THEN Value(phase.dependency).shortName
                  ELSE phase.title)
              \o afterInfo
  IN  << COLORS.bold \o "Next Phase:" \o COLORS.reset \o " " \o COLORS.cyan \o "Phase "
           \o NumberToString(nextPhase.number) \o COLORS.reset \o " - " \o nextPhase.title >>
        \o formatPhaseDependencyInfo(nextPhase, phases)
        \o (IF pending # << >>
            THEN << "  " \o COLORS.dim \o "Start with:" \o COLORS.reset \o " " \o COLORS.cyan
                      \o pending[1].id \o COLORS.reset \o " " \o pending[1].title >>
            ELSE << >>)
        \o << "" >>
        \o (IF Len(otherAvailable) > 0
            THEN << COLORS.bold \o "Can Run in Parallel:" \o COLORS.reset \o " " \o COLORS.dim
                      \o "(dependencies satisfied)" \o COLORS.reset >>
                   \o [ i \in 1..Len(otherAvailable) |-> Other(otherAvailable[i]) ]
                   \o << "" >>
            ELSE << >>)

\* What formatOutput(result, options) writes with console.log, a line each
formatOutput(result, options) ==
  LET percentage == IF result.totalTasks > 0
                    THEN Round(result.completedTasks * 100, result.totalTasks) ELSE 0
      progressBar == formatProgressBar(result.completedTasks, result.totalTasks, 20)
      progressColor == IF percentage = 100 THEN COLORS.green
                       ELSE IF percentage >= 50 THEN COLORS.yellow ELSE COLORS.red
  IN  << "",
         COLORS.bold \o result.specName \o COLORS.reset \o " " \o COLORS.dim \o "Tasks"
           \o COLORS.reset,
         Repeat("=", Len(result.specName) + 6),
         "",
         COLORS.bold \o "Progress:" \o COLORS.reset \o " " \o progressColor \o progressBar
           \o COLORS.reset \o " " \o NumberToString(result.completedTasks) \o "/"
           \o NumberToString(result.totalTasks) \o " (" \o NumberToString(percentage) \o "%)",
         "" >>
        \o PhaseList(result.phases, options)
        \o << "" >>
        \o (IF IsDefined(options.phase) THEN << >>
            ELSE IF IsDefined(result.nextPhase)
            THEN Recommendation(Value(result.nextPhase), result.phases, result.availablePhases)
            ELSE << COLORS.green \o COLORS.bold \o BOX.check \o " All phases complete!"
                      \o COLORS.reset,
                    "" >>)

\* JSON.stringify of a string: the quotation mark and the backslash escaped
JsonString(s) ==
  LET Escaped(c) == IF c = "\"" THEN "\\\"" ELSE IF c = "\\" THEN "\\\\" ELSE c
  IN  "\"" \o JoinWith([ i \in 1..Len(s) |-> Escaped(Ch(s, i)) ], "") \o "\""

JsonBoolean(b) == IF b THEN "true" ELSE "false"

\* JSON.stringify(array, null, 2) at a nesting level, of the members as written
JsonArray(items, level) ==
  IF items = << >> THEN "[]"
  ELSE "[\n"
         \o JoinWith([ i \in 1..Len(items) |-> Repeat("  ", level + 1) \o items[i] ], ",\n")
         \o "\n" \o Repeat("  ", level) \o "]"

\* JSON.stringify(object, null, 2) at a nesting level, of [key, value] with
\* the values as written; a property that is undefined is left out
JsonObject(members, level) ==
  IF members = << >> THEN "{}"
  ELSE "{\n"
         \o JoinWith([ i \in 1..Len(members) |->
                         Repeat("  ", level + 1) \o JsonString(members[i].key) \o ": "
                           \o members[i].value ], ",\n")
         \o "\n" \o Repeat("  ", level) \o "}"

JsonNumbers(numbers, level) ==
  JsonArray([ i \in 1..Len(numbers) |-> NumberToString(numbers[i]) ], level)

JsonStrings(strings, level) ==
  JsonArray([ i \in 1..Len(strings) |-> JsonString(strings[i]) ], level)

JsonTask(task, level) ==
  JsonObject(<< [ key |-> "id", value |-> JsonString(task.id) ],
                [ key |-> "completed", value |-> JsonBoolean(task.completed) ],
                [ key |-> "title", value |-> JsonString(task.title) ] >>, level)

JsonDependency(dep, level) ==
  JsonObject(<< [ key |-> "shortName", value |-> JsonString(dep.shortName) ],
                [ key |-> "dependsOn", value |-> JsonNumbers(dep.dependsOn, level + 1) ],
                [ key |-> "blocks", value |-> JsonNumbers(dep.blocks, level + 1) ],
                [ key |-> "canRunParallelWith",
                  value |-> JsonNumbers(dep.canRunParallelWith, level + 1) ],
                [ key |-> "parallelTasks", value |-> JsonStrings(dep.parallelTasks, level + 1) ],
                [ key |-> "description", value |-> JsonString(dep.description) ] >>, level)

\* The keys of a phase in the order they were set: priority after the
\* counts, dependency last
JsonPhase(phase, level) ==
  JsonObject(<< [ key |-> "number", value |-> NumberToString(phase.number) ],
                [ key |-> "title", value |-> JsonString(phase.title) ],
                [ key |-> "tasks",
                  value |-> JsonArray([ i \in 1..Len(phase.tasks) |->
                                          JsonTask(phase.tasks[i], level + 2) ], level + 1) ],
                [ key |-> "completedCount", value |-> NumberToString(phase.completedCount) ],
                [ key |-> "totalCount", value |-> NumberToString(phase.totalCount) ],
                [ key |-> "isComplete", value |-> JsonBoolean(phase.isComplete) ] >>
             \o (IF IsDefined(phase.priority)
                 THEN << [ key |-> "priority", value |-> JsonString(Value(phase.priority)) ] >>
                 ELSE << >>)
             \o (IF IsDefined(phase.dependency)
                 THEN << [ key |-> "dependency",
                           value |-> JsonDependency(Value(phase.dependency), level + 1) ] >>
                 ELSE << >>), level)

JsonPhases(phases, level) ==
  JsonArray([ i \in 1..Len(phases) |-> JsonPhase(phases[i], level + 1) ], level)

\* What formatJSON(result) writes with console.log: JSON.stringify(result, null, 2)
formatJSON(result) ==
  << JsonObject(<< [ key |-> "specFolder", value |-> JsonString(result.specFolder) ],
                   [ key |-> "specName", value |-> JsonString(result.specName) ],
                   [ key |-> "phases", value |-> JsonPhases(result.phases, 1) ],
                   [ key |-> "totalTasks", value |-> NumberToString(result.totalTasks) ],
                   [ key |-> "completedTasks",
                     value |-> NumberToString(result.completedTasks) ],
                   [ key |-> "availablePhases",
                     value |-> JsonPhases(result.availablePhases, 1) ] >>
                \o (IF IsDefined(result.nextPhase)
                    THEN << [ key |-> "nextPhase",
                              value |-> JsonPhase(Value(result.nextPhase), 1) ] >>
                    ELSE << >>)
                \o (IF IsDefined(result.nextTask)
                    THEN << [ key |-> "nextTask",
                              value |-> JsonTask(Value(result.nextTask), 1) ] >>
                    ELSE << >>), 0) >>

(***************************************************************************)
(* cli.ts: the command line.                                               *)
(***************************************************************************)
TASKS_FILENAME == "tasks.md"

HELP_TEXT ==
  "\n"
  \o "speckit-status - Track progress on Spec Kit tasks\n"
  \o "\n"
  \o "USAGE:\n"
  \o "  speckit-status [OPTIONS]\n"
  \o "\n"
  \o "OPTIONS:\n"
  \o "  -s, --spec-folder <path>   Override spec folder (instead of git branch detection)\n"
  \o "  -j, --json                 Output as JSON\n"
  \o "  -a, --all                  Show all tasks (including completed)\n"
  \o "  -p, --phase <number>       Show only specific phase\n"
  \o "  -n, --next [type]          Output next item for scripts (type: phase|task, default: phase)\n"
  \o "  -h, --help                 Show this help message\n"
  \o "  -v, --version              Show version\n"
  \o "\n"
  \o "EXAMPLES:\n"
  \o "  speckit-status                      # Auto-detect from git branch\n"
  \o "  speckit-status -s ./specs/my-spec   # Specify folder manually\n"
  \o "  speckit-status -p 2                 # Show phase 2 details\n"
  \o "  speckit-status -j                   # Output as JSON\n"
  \o "  speckit-status -n                   # Get next phase number\n"
  \o "  speckit-status -n phase             # Get next phase number (explicit)\n"
  \o "  speckit-status -n task              # Get next task ID (e.g., T003)\n"

\* The position of the first -n or --next of argv, 0 without one
NextPosition(argv) ==
  LET hits == { i \in 1..Len(argv) : argv[i] \in { "-n", "--next" } }
  IN  IF hits = {} THEN 0 ELSE CHOOSE h \in hits : \A g \in hits : h <= g

\* nextType of parseCliArgs: false is undefined here
NextType(argv) ==
  LET i == NextPosition(argv)
  IN  IF i = 0 THEN undefined
      ELSE IF i < Len(argv) /\ argv[i + 1] \in { "phase", "task" } THEN Some(argv[i + 1])
      ELSE Some("phase")

\* argv after argv.splice(i + 1, 1) of the type that follows -n or --next
WithoutNextType(argv) ==
  LET i == NextPosition(argv)
  IN  IF i # 0 /\ i < Len(argv) /\ argv[i + 1] \in { "phase", "task" }
      THEN SubSeq(argv, 1, i) \o SubSeq(argv, i + 2, Len(argv))
      ELSE argv

\* parseArgs({ args, options, strict: true }) over args[i..]: the values, or
\* undefined where it throws (an unknown option, a positional argument, a
\* string option without its value)
RECURSIVE parseArgs(_, _, _)
parseArgs(args, i, values) ==
  IF i > Len(args) THEN Some(values)
  ELSE IF args[i] \in { "-s", "--spec-folder" }
  THEN IF i < Len(args)
       THEN parseArgs(args, i + 2, [ values EXCEPT !.specFolder = Some(args[i + 1]) ])
       ELSE undefined
  ELSE IF args[i] \in { "-p", "--phase" }
  THEN IF i < Len(args)
       THEN parseArgs(args, i + 2, [ values EXCEPT !.phase = Some(args[i + 1]) ])
       ELSE undefined
  ELSE IF args[i] \in { "-j", "--json" }
  THEN parseArgs(args, i + 1, [ values EXCEPT !.json = TRUE ])
  ELSE IF args[i] \in { "-a", "--all" }
  THEN parseArgs(args, i + 1, [ values EXCEPT !.all = TRUE ])
  ELSE IF args[i] \in { "-n", "--next" }
  THEN parseArgs(args, i + 1, [ values EXCEPT !.next = TRUE ])
  ELSE IF args[i] \in { "-h", "--help" }
  THEN parseArgs(args, i + 1, [ values EXCEPT !.help = TRUE ])
  ELSE IF args[i] \in { "-v", "--version" }
  THEN parseArgs(args, i + 1, [ values EXCEPT !.version = TRUE ])
  ELSE undefined

\* ParsedArgs, or undefined where parseArgs throws. phase is undefined or
\* holds what parseInt gives, which is undefined for NaN.
parseCliArgs(argv) ==
  LET Args(values) ==
        IF ~IsDefined(values) THEN undefined
        ELSE Some([ specFolder |-> Value(values).specFolder,
                    json |-> Value(values).json,
                    all |-> Value(values).all,
                    phase |-> IF IsDefined(Value(values).phase)
                              THEN Some(ParseInt(Value(Value(values).phase)))
                              ELSE undefined,
                    next |-> NextType(argv),
                    help |-> Value(values).help,
                    version |-> Value(values).version ])
  IN  Args(parseArgs(WithoutNextType(argv), 1,
                     [ specFolder |-> undefined, json |-> FALSE, all |-> FALSE,
                       phase |-> undefined, next |-> FALSE, help |-> FALSE,
                       version |-> FALSE ]))

\* What main prints for --next: the identifier of result.nextTask, the number
\* of result.nextPhase, or "done"
NextOutput(next, r) ==
  IF next = "task"
  THEN IF IsDefined(r.nextTask) THEN Value(r.nextTask).id ELSE "done"
  ELSE IF IsDefined(r.nextPhase) THEN NumberToString(Value(r.nextPhase).number) ELSE "done"

(***************************************************************************)
(* The documents the model parses.                                         *)
(***************************************************************************)
\* Bounds
MaxPhaseNumber == 2
MaxBodyLines == 4
MaxDependencyLines == 2

\* lines.join("\n")
RECURSIVE Join(_)
Join(lines) ==
  IF lines = << >> THEN ""
  ELSE IF Len(lines) = 1 THEN lines[1]
  ELSE lines[1] \o "\n" \o Join(Tail(lines))

\* All the sequences of at most n elements of S
RECURSIVE SeqsUpTo(_, _)
SeqsUpTo(S, n) ==
  IF n = 0 THEN { << >> }
  ELSE LET shorter == SeqsUpTo(S, n - 1)
       IN  shorter \cup { Append(q, e) : q \in shorter, e \in S }

\* "## Phase n: Stage n", the even ones with a priority
HeaderLine(n) ==
  "## Phase " \o NumberToString(n) \o ": Stage " \o NumberToString(n)
    \o (IF n % 2 = 0 THEN " (Priority: P1)" ELSE "")

DoneTaskLine == "- [X] T001 Write the schema"
OpenTaskLine == "- [ ] T002 Write the tests"

BodyLines == { HeaderLine(n) : n \in 1..MaxPhaseNumber } \cup { DoneTaskLine, OpenTaskLine }

\* "- **Phase n (Sn)**: description"
DependencyLine(n, description) ==
  "- **Phase " \o NumberToString(n) \o " (S" \o NumberToString(n) \o ")**: " \o description

\* Every phase depends on the phase before it
ChainSection ==
  << DEPENDENCIES_SECTION_START, "", PHASE_DEPENDENCIES_HEADER, "",
     DependencyLine(1, "No dependencies - can start immediately") >>
  \o [ i \in 1..(MaxPhaseNumber - 1) |->
         DependencyLine(i + 1, "Depends on Phase " \o NumberToString(i)) ]

\* Phase 1 depends on phase 2 and on a phase that has no header
JoinSection ==
  << DEPENDENCIES_SECTION_START, PHASE_DEPENDENCIES_HEADER,
     DependencyLine(1, "Depends on Phase 2, depends on Phase "
                         \o NumberToString(MaxPhaseNumber + 1)) >>

Sections == { << >>, ChainSection, JoinSection }

\* Documents with any phase headers and task lines, in any order
Documents ==
  { Join(body \o section) : body \in SeqsUpTo(BodyLines, MaxBodyLines), section \in Sections }

\* The descriptions of the dependency lines
Descriptions ==
  { "No dependencies - BLOCKS all other phases, Blocks Phase 1",
    "Depends on Phase 1 - Blocks Phase 3",
    "Depends on Phase 2, depends on Phase 3 - blocks Phase 2, Blocks Phase 2",
    "depends on ALL earlier phases, depends on Phase 3" }

\* The phases that have a dependency line, whose descriptions name phase 3 too
DependencyPhases == { 1, 2 }

DependencyLines == { DependencyLine(n, d) : n \in DependencyPhases, d \in Descriptions }

\* Nothing, the header alone, or the header and one line
ParallelSections ==
  { << >>,
    << PARALLEL_OPPORTUNITIES_HEADER >>,
    << PARALLEL_OPPORTUNITIES_HEADER, "", "**Phase 1 (S1)**: T001-T003 can run in parallel" >>,
    << PARALLEL_OPPORTUNITIES_HEADER, "**Phase 3 (S3)**: T12 and T7 touch different files", "---" >> }

\* A phase per number, the odd ones complete
RECURSIVE StandardBody(_)
StandardBody(n) ==
  IF n = 0 THEN << >>
  ELSE StandardBody(n - 1)
         \o << HeaderLine(n), IF n % 2 = 1 THEN DoneTaskLine ELSE OpenTaskLine >>

\* Dependency lines for the phases 1, 2 and 3, the first of which blocks all
BlocksAllDocument ==
  Join(<< "", DEPENDENCIES_SECTION_START, "", PHASE_DEPENDENCIES_HEADER, "",
          DependencyLine(1, "No dependencies - BLOCKS all other phases, Blocks Phase 1"),
          DependencyLine(2, "No dependencies"),
          DependencyLine(3, "No dependencies"), "" >>)

\* Documents with a dependency section of any dependency lines
DependencyDocuments ==
  { Join(StandardBody(MaxPhaseNumber)
           \o << "", DEPENDENCIES_SECTION_START, "", PHASE_DEPENDENCIES_HEADER, "" >>
           \o lines \o parallel) :
      lines \in SeqsUpTo(DependencyLines, MaxDependencyLines), parallel \in ParallelSections }
    \cup { BlocksAllDocument }

\* The descriptions with and without a phrase "parallel to Phase": one
\* number, several, empty segments in front, between and behind, slashes
\* alone, a second phrase, a phrase without a number before one with, a
\* capital letter, and none
ParallelToDescriptions ==
  { "Depends on Phase 1 - can run parallel to Phase 3",
    "Can run parallel to Phases 6/7, blocks Phase 5",
    "Depends on Phase 1, parallel to Phase 2//04/ - Blocks Phase 5",
    "parallel to Phase /3, depends on Phase 2",
    "parallel to Phases / (none yet), depends on Phase 1",
    "In parallel to Phase 2, not parallel to Phase 4/5",
    "parallel to Phase two, then parallel to Phase  2/5",
    "Parallel to Phase 4",
    "Depends on Phase 1" }

ParallelToLines == { DependencyLine(n, d) : n \in DependencyPhases, d \in ParallelToDescriptions }

\* Documents with a dependency section of dependency lines that state what
\* runs in parallel
ParallelToDocuments ==
  { Join(StandardBody(MaxPhaseNumber)
           \o << "", DEPENDENCIES_SECTION_START, "", PHASE_DEPENDENCIES_HEADER, "" >>
           \o lines) :
      lines \in SeqsUpTo(ParallelToLines, MaxDependencyLines) }

\* "**Phase n (Sn)**: description"
ParallelLine(n, description) ==
  "**Phase " \o NumberToString(n) \o " (S" \o NumberToString(n) \o ")**: " \o description

\* The descriptions of the parallel opportunity lines: ranges written with
\* one to four digits, overlapping, reversed, across 999, and no task at all
TaskDescriptions ==
  { "T002-T004 can run in parallel",
    "T9-T11 touch different files",
    "T0002-T0004 share no state",
    "T001-T003 and T002-T005, then T004 and T12",
    "T005-T003 or T7",
    "T998-T1001",
    "nothing to run in parallel" }

ParallelOpportunityLines == { ParallelLine(n, d) : n \in 1..2, d \in TaskDescriptions }

MaxParallelLines == 2

\* The dependency line of phase 1 that the parallel tasks are merged into
MergedDependencyLine ==
  DependencyLine(1, "Depends on Phase 2 - Blocks Phase 3, can run parallel to Phase 4/5")

\* Documents with at most one dependency line and any parallel opportunity lines
ParallelDocuments ==
  { Join(<< DEPENDENCIES_SECTION_START, "", PHASE_DEPENDENCIES_HEADER >> \o deps
           \o << "", PARALLEL_OPPORTUNITIES_HEADER, "" >> \o lines) :
      deps \in { << >>, << MergedDependencyLine >> },
      lines \in SeqsUpTo(ParallelOpportunityLines, MaxParallelLines) }

\* Lines that miss the shape of a phase header, a task line, a dependency
\* line and a parallel opportunity line
MalformedHeaderLine == "## Phase One: Broken"
MalformedTaskLines == { "-[X]T002 Missing space", "- [X] Missing task ID" }
MalformedDependencyLine == "- **Phase 2 (S2)*: Depends on Phase 1"
MalformedParallelLine == "**Phase (S1)**: T001-T003"

\* A parallel opportunity line whose range runs to a hundred thousand million
EndlessParallelLine == ParallelLine(1, "T1-T99999999999")

\* Well-formed and malformed lines of every kind
TextLines ==
  { HeaderLine(1), DoneTaskLine, OpenTaskLine,
    DEPENDENCIES_SECTION_START, PHASE_DEPENDENCIES_HEADER, PARALLEL_OPPORTUNITIES_HEADER,
    DependencyLine(1, "Depends on Phase 2"), ParallelLine(1, "T001-T002"),
    MalformedHeaderLine, MalformedDependencyLine, MalformedParallelLine,
    EndlessParallelLine }
    \cup MalformedTaskLines

MaxTextLines == 3

\* A task line before the first header, then two phases, each with a
\* malformed line among its task lines
SkippedLinesDocument ==
  Join(<< OpenTaskLine, HeaderLine(1), DoneTaskLine, "-[X]T002 Missing space", OpenTaskLine,
          HeaderLine(2), "- [X] Missing task ID", DoneTaskLine >>)

\* The Parallel Opportunities before the Phase Dependencies, whose two lines
\* are followed by a header and a third line
ParallelFirstDocument ==
  Join(<< HeaderLine(1), OpenTaskLine, DEPENDENCIES_SECTION_START,
          PARALLEL_OPPORTUNITIES_HEADER, ParallelLine(1, "T001-T002"),
          PHASE_DEPENDENCIES_HEADER, "",
          DependencyLine(1, "No dependencies"), DependencyLine(2, "Depends on Phase 1"),
          "### Notes", DependencyLine(3, "Depends on Phase 2") >>)

\* The Phase Dependencies first, their block ended by a header that is not
\* the one of the Parallel Opportunities
BoundaryDocument ==
  Join(<< HeaderLine(1), OpenTaskLine, DEPENDENCIES_SECTION_START,
          PHASE_DEPENDENCIES_HEADER, "",
          DependencyLine(1, "No dependencies"), DependencyLine(2, "Depends on Phase 1"),
          "### Notes", DependencyLine(3, "Depends on Phase 2"),
          PARALLEL_OPPORTUNITIES_HEADER, ParallelLine(1, "T001-T002"), "---",
          ParallelLine(4, "T003-T004") >>)

\* Documents of any lines in any order, the empty document among them
TextDocuments ==
  { Join(lines) : lines \in SeqsUpTo(TextLines, MaxTextLines) }
    \cup { SkippedLinesDocument, ParallelFirstDocument, BoundaryDocument }

SpecFolders == { "specs/001-demo" }

\* Dependency and parallel lines whose parsing tests and matches with every
\* regular expression of dependency-parser.ts
RepeatLines ==
  { DependencyLine(1, "No dependencies - BLOCKS all other phases"),
    DependencyLine(2, "Depends on Phase 1 - Blocks Phase 3"),
    DependencyLine(3, "Depends on all earlier phases"),
    PARALLEL_OPPORTUNITIES_HEADER,
    ParallelLine(1, "T001-T003 and T005") }

\* Two phases and a dependencies section of the lines
RepeatDocument(lines) ==
  Join(<< HeaderLine(1), OpenTaskLine, HeaderLine(2), DEPENDENCIES_SECTION_START,
          PHASE_DEPENDENCIES_HEADER >> \o lines)

\* The documents parsed twice
RepeatDocuments ==
  { RepeatDocument(lines) : lines \in SeqsUpTo(RepeatLines, MaxDependencyLines) }

\* The documents parsed in between
OtherDocuments == { RepeatDocument(<< line >>) : line \in RepeatLines }

\* The tasks.md files the command line is run on: phase headers and task
\* lines in any order
TaskFiles == { Join(body) : body \in SeqsUpTo(BodyLines, MaxBodyLines) }

\* The command lines: --next and -n with and without a type, before and
\* after the folder, --help, and a type that is none
Arguments(folder) ==
  { << "-s", folder, "--next", "task" >>, << "-s", folder, "-n", "task" >>,
    << "--next", "task", "--spec-folder", folder >>,
    << "-s", folder, "--next", "phase" >>, << "-n", "phase", "-s", folder >>,
    << "-s", folder, "--next" >>, << "-s", folder, "-n" >>, << "--next", "-s", folder >>,
    << "-s", folder, "--help" >>, << "-s", folder, "--next", "tasks" >> }

\* The phase lists a caller of calculateAvailablePhases builds by hand
MaxListLength == 2

\* The lists of numbers in ascending order, one for every set of numbers
AscendingLists(numbers) ==
  { q \in SeqsUpTo(numbers, Cardinality(numbers)) : \A k \in 1..Len(q) - 1 : q[k] < q[k + 1] }

\* A phase of a list: a number, complete or not, and no dependency record or
\* one that depends on any of the numbers
ListPhases ==
  [ number : 1..MaxListLength,
    isComplete : BOOLEAN,
    dependency : { undefined }
                   \cup { Some([ shortName |-> "", dependsOn |-> dependsOn, blocks |-> << >>,
                                 canRunParallelWith |-> << >>, parallelTasks |-> << >>,
                                 description |-> "" ]) :
                            dependsOn \in AscendingLists(1..MaxListLength) } ]

\* The lists of at most MaxListLength phases in the order of their numbers,
\* the malformed ones among them: a number twice, a dependency on a number of
\* no phase, a cycle
PhaseLists ==
  { list \in SeqsUpTo(ListPhases, MaxListLength) :
      \A k \in 1..Len(list) - 1 : list[k].number <= list[k + 1].number }

\* process.cwd()
Cwd == "/repo"

\* What git rev-parse --abbrev-ref HEAD names: nothing outside a repository
\* (undefined), the spec folder, a feature branch of it, or another branch
Branches == { undefined, Some("001-demo"), Some("feature/001-demo"), Some("main") }

\* What getVersion returns: version of package.json, or 0.0.0 without it
Versions == { "1.2.0", "0.0.0" }

\* Two phases with tasks done and open
MixedBody ==
  << HeaderLine(1), DoneTaskLine, OpenTaskLine, HeaderLine(2), OpenTaskLine, DoneTaskLine >>

\* The tasks.md files of the runs with every option: empty, complete,
\* with and without a dependencies section, and one that cannot be parsed
MainFiles ==
  { "",
    Join(<< HeaderLine(1), DoneTaskLine >>),
    Join(MixedBody),
    Join(MixedBody \o ChainSection),
    Join(MixedBody \o JoinSection),
    Join(MixedBody \o << DEPENDENCIES_SECTION_START, PARALLEL_OPPORTUNITIES_HEADER,
                         EndlessParallelLine >>) }

\* The command lines: no option, every option alone, a phase with and
\* without --all, a phase that is missing and one that is no number, the
\* folder left out, and the folder of another spec
MainArguments(folder) ==
  Arguments(folder)
    \cup { << >>, << "-n" >>, << "--json" >>, << "-p", "1" >>,
           << "-s", folder >>, << "--spec-folder", folder, "-a" >>,
           << "-s", folder, "-p", "1" >>, << "-s", folder, "--phase", "1", "--all" >>,
           << "-s", folder, "-p", "2", "-a" >>, << "-s", folder, "-p", "2" >>,
           << "-s", folder, "-p", "3" >>, << "-s", folder, "-p", "x" >>,
           << "-s", folder, "-j" >>, << "-s", folder, "-j", "-p", "1" >>,
           << "-s", folder, "-v" >>, << "--version" >>, << "-v", "-h", "-n" >>,
           << "-h" >>, << "-s", "specs/002-other" >>, << "-s", "" >>,
           << "-s", folder, "-n", "-j" >>, << "-s" >> }

\* The CLIOptions a caller of formatOutput passes: showAll absent, false or
\* true, and phase absent, a phase number or a number that no phase has
FormatOptions ==
  [ json : { undefined },
    showAll : { undefined, Some(FALSE), Some(TRUE) },
    specFolder : { undefined },
    phase : { undefined } \cup { Some(Some(n)) : n \in 1..(MaxPhaseNumber + 1) },
    help : { undefined },
    next : { undefined } ]

(***************************************************************************)
(* The state: the arguments of the call, and what the calls returned.      *)
(***************************************************************************)
VARIABLES
  content,       \* the text of tasks.md
  specFolder,    \* the spec folder the caller passes
  pc,            \* "ready", "parsed", "dependencies", "mutated", "calculated",
                 \* "thrown", "exited", "returned", "formatted", "called"
  result,        \* the ParseResult of parseTasksFile, once called
  dependencies,  \* the Map of parseDependencies, once called
  phases,        \* the caller's phase list (result.phases, then mutated)
  available,     \* what calculateAvailablePhases(phases) returned last
  thrown,        \* the error a call threw instead of returning, and the call
  lastIndex,     \* lastIndex of each module-level regular expression
  again,         \* what the repeated call returned
  argv,          \* process.argv.slice(2)
  files,         \* what exists on disk: "nothing", "folder" or "tasks"
  stdout,        \* the lines written by console.log
  stderr,        \* the lines written by console.error
  exitCode,      \* the argument of process.exit, or 1 after an uncaught error
  options,       \* the CLIOptions the formatter was called with
  calls          \* the calls main has made, and the phases a caller of
                 \* the library has marked complete, in order

vars == << content, specFolder, pc, result, dependencies, phases, available,
           thrown, lastIndex, again, argv, files, stdout, stderr, exitCode,
           options, calls >>

\* The state the regular expressions are created in
NewRegularExpressions == [ r \in RegularExpressions |-> 0 ]

\* What a caller of the library leaves alone: it has no command line
process == << argv, files, stdout, stderr, exitCode, options, calls >>

\* A library caller before its first call
Library ==
  /\ thrown = undefined
  /\ lastIndex = NewRegularExpressions
  /\ again = undefined
  /\ argv = << >>
  /\ files = "tasks"
  /\ stdout = << >>
  /\ stderr = << >>
  /\ exitCode = undefined
  /\ options = undefined
  /\ calls = << >>

Init ==
  /\ content \in Documents
  /\ specFolder \in SpecFolders
  /\ pc = "ready"
  /\ result = undefined
  /\ dependencies = undefined
  /\ phases = << >>
  /\ available = undefined
  /\ Library

\* const result = parseTasksFile(content, specFolder)
ParseTasksFile ==
  /\ pc = "ready"
  /\ IF parseDependenciesThrows(content)
     THEN /\ thrown' = Some([ error |-> RangeError, call |-> "parseTasksFile" ])
          /\ pc' = "thrown"
          /\ UNCHANGED << result, phases >>
     ELSE /\ result' = Some(parseTasksFile(content, specFolder))
          /\ phases' = Value(result').phases
          /\ pc' = "parsed"
          /\ UNCHANGED thrown
  /\ UNCHANGED << content, specFolder, dependencies, available,
                  lastIndex, again, process >>

\* const dependencies = parseDependencies(content)
ParseDependencies ==
  /\ pc = "ready"
  /\ IF parseDependenciesThrows(content)
     THEN /\ thrown' = Some([ error |-> RangeError, call |-> "parseDependencies" ])
          /\ pc' = "thrown"
          /\ UNCHANGED dependencies
     ELSE /\ dependencies' = Some(parseDependencies(content))
          /\ pc' = "dependencies"
          /\ UNCHANGED thrown
  /\ UNCHANGED << content, specFolder, result, phases, available,
                  lastIndex, again, process >>

\* The caller marks a phase of its list complete (simulated completion)
MarkComplete ==
  /\ pc \in { "parsed", "calculated" }
  /\ \E i \in 1..Len(phases) :
       /\ ~phases[i].isComplete
       /\ phases' = [ phases EXCEPT ![i].isComplete = TRUE ]
  /\ pc' = "mutated"
  /\ UNCHANGED << content, specFolder, result, dependencies, available,
                  thrown, lastIndex, again, process >>

\* const available = calculateAvailablePhases(phases)
CalculateAvailablePhases ==
  /\ pc \in { "parsed", "mutated" }
  /\ available' = Some(calculateAvailablePhases(phases))
  /\ pc' = "calculated"
  /\ UNCHANGED << content, specFolder, result, dependencies, phases,
                  thrown, lastIndex, again, process >>

Next ==
  \/ ParseTasksFile
  \/ ParseDependencies
  \/ MarkComplete
  \/ CalculateAvailablePhases

Spec == Init /\ [][Next]_vars

\* The parsers alone, over the documents with a dependency section
InitDependencies ==
  /\ content \in DependencyDocuments
  /\ specFolder \in SpecFolders
  /\ pc = "ready"
  /\ result = undefined
  /\ dependencies = undefined
  /\ phases = << >>
  /\ available = undefined
  /\ Library

NextDependencies ==
  \/ ParseTasksFile
  \/ ParseDependencies

DependencySpec == InitDependencies /\ [][NextDependencies]_vars

\* parseDependencies alone, over the documents with parallel opportunities
InitParallel ==
  /\ content \in ParallelDocuments
  /\ specFolder \in SpecFolders
  /\ pc = "ready"
  /\ result = undefined
  /\ dependencies = undefined
  /\ phases = << >>
  /\ available = undefined
  /\ Library

NextParallel == ParseDependencies

ParallelSpec == InitParallel /\ [][NextParallel]_vars

\* The parsers over the documents of well-formed and malformed lines
InitText ==
  /\ content \in TextDocuments
  /\ specFolder \in SpecFolders
  /\ pc = "ready"
  /\ result = undefined
  /\ dependencies = undefined
  /\ phases = << >>
  /\ available = undefined
  /\ Library

NextText ==
  \/ ParseTasksFile
  \/ ParseDependencies

TextSpec == InitText /\ [][NextText]_vars

\* One call of main: the function and the path it is called with
Call(function, path) == [ function |-> function, path |-> path ]

\* What existsSync finds: the spec folder under the working directory, by
\* its relative and its absolute path, and its tasks.md
ExistingPaths(folder, onDisk) ==
  (IF onDisk = "nothing" THEN { } ELSE { folder, join(Cwd, folder) })
    \cup (IF onDisk = "tasks"
          THEN { join(folder, TASKS_FILENAME), join(join(Cwd, folder), TASKS_FILENAME) }
          ELSE { })

\* The caller marks a phase complete that calculateAvailablePhases returned
CompleteAvailable ==
  /\ pc = "calculated"
  /\ \E i \in 1..Len(phases) :
       /\ ~phases[i].isComplete
       /\ SeqIncludes(Value(available), phases[i].number)
       /\ phases' = [ phases EXCEPT ![i].isComplete = TRUE ]
       /\ calls' = Append(calls, Call("markComplete", NumberToString(phases[i].number)))
  /\ pc' = "mutated"
  /\ UNCHANGED << content, specFolder, result, dependencies, available, thrown,
                  lastIndex, again, argv, files, stdout, stderr, exitCode, options >>

\* A caller with a phase list of its own
InitCompletion ==
  /\ content = ""
  /\ specFolder \in SpecFolders
  /\ pc = "mutated"
  /\ result = undefined
  /\ dependencies = undefined
  /\ phases \in PhaseLists
  /\ available = undefined
  /\ Library

NextCompletion ==
  \/ CalculateAvailablePhases
  \/ CompleteAvailable

\* The caller computes and completes as long as a phase is returned
CompletionSpec ==
  /\ InitCompletion
  /\ [][NextCompletion]_vars
  /\ WF_vars(CalculateAvailablePhases)
  /\ WF_vars(CompleteAvailable)

\* The parsers over the documents that state what runs in parallel
InitParallelTo ==
  /\ content \in ParallelToDocuments
  /\ specFolder \in SpecFolders
  /\ pc = "ready"
  /\ result = undefined
  /\ dependencies = undefined
  /\ phases = << >>
  /\ available = undefined
  /\ Library

NextParallelTo ==
  \/ ParseTasksFile
  \/ ParseDependencies

ParallelToSpec == InitParallelTo /\ [][NextParallelTo]_vars

\* process.exit(code) after the lines written to the console and the calls made
Exit(out, err, code, made) ==
  /\ stdout' = stdout \o out
  /\ stderr' = stderr \o err
  /\ exitCode' = Some(code)
  /\ calls' = calls \o made
  /\ pc' = "exited"

\* main returns after the lines written to the console and the calls made
Return(out, made) ==
  /\ stdout' = stdout \o out
  /\ calls' = calls \o made
  /\ pc' = "returned"
  /\ UNCHANGED << stderr, exitCode >>

\* main() from line 171 on with the formatter called before --next is handled
MainIn_FormatsFirst(args, folder, made) ==
  LET existing == ExistingPaths(specFolder, files)
      tasksPath == join(folder, TASKS_FILENAME)
      checked == made \o << Call("existsSync", folder) >>
      found == checked \o << Call("existsSync", tasksPath) >>
      read == found \o << Call("readFileSync", tasksPath), Call("parseTasksFile", folder) >>
      built == [ json |-> Some(args.json),
                 showAll |-> Some(args.all),
                 specFolder |-> args.specFolder,
                 phase |-> args.phase,
                 help |-> undefined,
                 next |-> undefined ]
  IN  IF folder \notin existing
      THEN /\ Exit(<< >>, << "Error: Spec folder does not exist: " \o folder >>, 1, checked)
           /\ UNCHANGED << result, phases, thrown, options >>
      ELSE IF tasksPath \notin existing
      THEN /\ Exit(<< >>, << "Error: Tasks file not found: " \o tasksPath >>, 1, found)
           /\ UNCHANGED << result, phases, thrown, options >>
      ELSE IF parseDependenciesThrows(content)
      THEN /\ thrown' = Some([ error |-> RangeError, call |-> "parseTasksFile" ])
           /\ Exit(<< >>, << >>, 1, read)
           /\ UNCHANGED << result, phases, options >>
      ELSE /\ result' = Some(parseTasksFile(content, folder))
           /\ phases' = Value(result').phases
           /\ UNCHANGED thrown
           /\ options' = Some(built)
           /\ LET out == IF args.json THEN formatJSON(Value(result'))
                         ELSE formatOutput(Value(result'), built)
                  formatted == read \o << Call(IF args.json THEN "formatJSON"
                                                ELSE "formatOutput", "") >>
              IN  IF IsDefined(args.next)
                  THEN Exit(out \o << NextOutput(Value(args.next), Value(result')) >>,
                            << >>, 0, formatted)
                  ELSE Return(out, formatted)

\* main() from line 171 on, with the spec folder and the calls made so far.
\* An uncaught error ends the run with code 1.
MainIn(args, folder, made) ==
  LET existing == ExistingPaths(specFolder, files)
      tasksPath == join(folder, TASKS_FILENAME)
      checked == made \o << Call("existsSync", folder) >>
      found == checked \o << Call("existsSync", tasksPath) >>
      read == found \o << Call("readFileSync", tasksPath), Call("parseTasksFile", folder) >>
      built == [ json |-> Some(args.json),
                 showAll |-> Some(args.all),
                 specFolder |-> args.specFolder,
                 phase |-> args.phase,
                 help |-> undefined,
                 next |-> undefined ]
  IN  IF folder \notin existing
      THEN /\ Exit(<< >>, << "Error: Spec folder does not exist: " \o folder >>, 1, checked)
           /\ UNCHANGED << result, phases, thrown, options >>
      ELSE IF tasksPath \notin existing
      THEN /\ Exit(<< >>, << "Error: Tasks file not found: " \o tasksPath >>, 1, found)
           /\ UNCHANGED << result, phases, thrown, options >>
      ELSE IF parseDependenciesThrows(content)
      THEN /\ thrown' = Some([ error |-> RangeError, call |-> "parseTasksFile" ])
           /\ Exit(<< >>, << >>, 1, read)
           /\ UNCHANGED << result, phases, options >>
      ELSE /\ result' = Some(parseTasksFile(content, folder))
           /\ phases' = Value(result').phases
           /\ UNCHANGED thrown
           /\ IF IsDefined(args.next)
              THEN /\ Exit(<< NextOutput(Value(args.next), Value(result')) >>, << >>, 0, read)
                   /\ UNCHANGED options
              ELSE /\ options' = Some(built)
                   /\ IF args.json
                      THEN Return(formatJSON(Value(result')),
                                  read \o << Call("formatJSON", "") >>)
                      ELSE Return(formatOutput(Value(result'), built),
                                  read \o << Call("formatOutput", "") >>)

\* main() from line 146 on. What getVersion reads from package.json and the
\* branch that git names are inputs of the run.
MainWith(args) ==
  IF args.help
  THEN /\ Exit(<< HELP_TEXT >>, << >>, 0, << >>)
       /\ UNCHANGED << result, phases, thrown, options >>
  ELSE IF args.version
  THEN /\ \E version \in Versions : Exit(<< version >>, << >>, 0, << Call("getVersion", "") >>)
       /\ UNCHANGED << result, phases, thrown, options >>
  ELSE IF IsDefined(args.specFolder) /\ Value(args.specFolder) # ""
  THEN MainIn(args, Value(args.specFolder), << >>)
  ELSE \E branch \in Branches :
         LET detectedFolder ==
               getSpecFolderFromBranch(branch, Cwd, "specs",
                                       ExistingPaths(specFolder, files))
             made == << Call("getSpecFolderFromBranch", "") >>
         IN  IF ~IsDefined(detectedFolder)
             THEN /\ Exit(<< >>,
                          << "Error: Could not detect spec folder from git branch. "
                               \o "Use -s/--spec-folder to specify manually." >>, 1, made)
                  /\ UNCHANGED << result, phases, thrown, options >>
             ELSE MainIn(args, Value(detectedFolder), made)

\* main()
Main ==
  /\ pc = "ready"
  /\ IF IsDefined(parseCliArgs(argv))
     THEN MainWith(Value(parseCliArgs(argv)))
     ELSE /\ thrown' = Some([ error |-> "TypeError", call |-> "parseArgs" ])
          /\ Exit(<< >>, << >>, 1, << >>)
          /\ UNCHANGED << result, phases, options >>
  /\ UNCHANGED << content, specFolder, dependencies, available, lastIndex,
                  again, argv, files >>

\* The command line, run once
InitCli ==
  /\ specFolder \in SpecFolders
  /\ argv \in Arguments(specFolder)
  /\ files \in { "nothing", "folder", "tasks" }
  /\ content \in IF files = "tasks" THEN TaskFiles ELSE { "" }
  /\ pc = "ready"
  /\ result = undefined
  /\ dependencies = undefined
  /\ phases = << >>
  /\ available = undefined
  /\ thrown = undefined
  /\ lastIndex = NewRegularExpressions
  /\ again = undefined
  /\ stdout = << >>
  /\ stderr = << >>
  /\ exitCode = undefined
  /\ options = undefined
  /\ calls = << >>

NextCli == Main

CliSpec == InitCli /\ [][NextCli]_vars

\* The command line with every option, run once on a few tasks files
InitMain ==
  /\ specFolder \in SpecFolders
  /\ argv \in MainArguments(specFolder)
  /\ files \in { "nothing", "folder", "tasks" }
  /\ content \in IF files = "tasks" THEN MainFiles ELSE { "" }
  /\ pc = "ready"
  /\ result = undefined
  /\ dependencies = undefined
  /\ phases = << >>
  /\ available = undefined
  /\ thrown = undefined
  /\ lastIndex = NewRegularExpressions
  /\ again = undefined
  /\ stdout = << >>
  /\ stderr = << >>
  /\ exitCode = undefined
  /\ options = undefined
  /\ calls = << >>

NextMain == Main

MainSpec == InitMain /\ [][NextMain]_vars

\* formatOutput(result, options) by a caller of the library
FormatOutput ==
  /\ pc = "parsed"
  /\ \E o \in FormatOptions :
       /\ options' = Some(o)
       /\ stdout' = stdout \o formatOutput(Value(result), o)
  /\ pc' = "formatted"
  /\ UNCHANGED << content, specFolder, result, dependencies, phases, available,
                  thrown, lastIndex, again, argv, files, stderr, exitCode, calls >>

NextFormat ==
  \/ ParseTasksFile
  \/ FormatOutput

\* The documents of Spec, parsed and printed
FormatSpec == Init /\ [][NextFormat]_vars

\* What a call of parseDependencies leaves: its first result in
\* dependencies, the result of a later call in again
ParseDependenciesReturns(call) ==
  /\ lastIndex' = call.lastIndex
  /\ IF ~IsDefined(dependencies)
     THEN /\ dependencies' = Some(call.returned)
          /\ UNCHANGED again
     ELSE /\ again' = Some([ call |-> "parseDependencies", returned |-> call.returned ])
          /\ UNCHANGED dependencies

\* parseDependencies(content), in a process that may have parsed before
CallParseDependencies ==
  /\ pc \in { "ready", "called" }
  /\ IF parseDependenciesThrows(content)
     THEN /\ thrown' = Some([ error |-> RangeError, call |-> "parseDependencies" ])
          /\ pc' = "thrown"
          /\ UNCHANGED << dependencies, again, lastIndex >>
     ELSE /\ ParseDependenciesReturns(parseDependenciesCall(content, lastIndex))
          /\ pc' = "called"
          /\ UNCHANGED thrown
  /\ UNCHANGED << content, specFolder, result, phases, available, process >>

\* What a call of parseTasksFile leaves: its first result in result, the
\* result of a later call in again
ParseTasksFileReturns(call) ==
  /\ lastIndex' = call.lastIndex
  /\ IF ~IsDefined(result)
     THEN /\ result' = Some(call.returned)
          /\ phases' = call.returned.phases
          /\ UNCHANGED again
     ELSE /\ again' = Some([ call |-> "parseTasksFile", returned |-> call.returned ])
          /\ UNCHANGED << result, phases >>

\* parseTasksFile(content, specFolder), in a process that may have parsed before
CallParseTasksFile ==
  /\ pc \in { "ready", "called" }
  /\ IF parseDependenciesThrows(content)
     THEN /\ thrown' = Some([ error |-> RangeError, call |-> "parseTasksFile" ])
          /\ pc' = "thrown"
          /\ UNCHANGED << result, phases, again, lastIndex >>
     ELSE /\ ParseTasksFileReturns(parseTasksFileCall(content, specFolder, lastIndex))
          /\ pc' = "called"
          /\ UNCHANGED thrown
  /\ UNCHANGED << content, specFolder, dependencies, available, process >>

\* A call on another document, between the calls on content: only the
\* regular expressions can keep anything of it
CallOnAnother ==
  /\ pc \in { "ready", "called" }
  /\ \E other \in OtherDocuments :
       lastIndex' = parseTasksFileCall(other, specFolder, lastIndex).lastIndex
  /\ pc' = "called"
  /\ UNCHANGED << content, specFolder, result, dependencies, phases, available,
                  thrown, again, process >>

\* One process that parses again and again
InitRepeat ==
  /\ content \in RepeatDocuments
  /\ specFolder \in SpecFolders
  /\ pc = "ready"
  /\ result = undefined
  /\ dependencies = undefined
  /\ phases = << >>
  /\ available = undefined
  /\ Library

NextRepeat ==
  \/ CallParseDependencies
  \/ CallParseTasksFile
  \/ CallOnAnother

RepeatSpec == InitRepeat /\ [][NextRepeat]_vars

(***************************************************************************)
(* Properties.                                                             *)
(***************************************************************************)
\* parseTasksFile has returned
Parsed == IsDefined(result)

\* parseDependencies has returned
DependenciesParsed == IsDefined(dependencies)

\* The numbers of seq never decrease
Ascending(seq) == \A i, j \in 1..Len(seq) : i < j => seq[i] <= seq[j]

\* The numbers of a list of phases
Numbers(list) == [ i \in 1..Len(list) |-> list[i].number ]

\* Some phase of list with this number is complete
CompleteIn(list, n) == \E j \in 1..Len(list) : list[j].number = n /\ list[j].isComplete

\* The phase is not complete and every number it depends on is the number
\* of a complete phase of list
Startable(list, phase) ==
  /\ ~phase.isComplete
  /\ \/ ~IsDefined(phase.dependency)
     \/ \A k \in 1..Len(Value(phase.dependency).dependsOn) :
          CompleteIn(list, Value(phase.dependency).dependsOn[k])

\* C1: availablePhases of a parse result holds no complete phase and no phase
\* that depends on a number that is not the number of a complete phase.
C1_AvailableAreStartable ==
  Parsed =>
    \A i \in 1..Len(Value(result).availablePhases) :
      LET p == Value(result).availablePhases[i]
      IN  /\ ~p.isComplete
          /\ IsDefined(p.dependency) =>
               \A k \in 1..Len(Value(p.dependency).dependsOn) :
                 CompleteIn(Value(result).phases, Value(p.dependency).dependsOn[k])

\* An available phase depends on a complete phase, while another phase of the
\* document is complete and a third is not available.
C1_Witness ==
  /\ Parsed
  /\ \E i \in 1..Len(Value(result).availablePhases) :
       LET p == Value(result).availablePhases[i]
       IN  IsDefined(p.dependency) /\ Len(Value(p.dependency).dependsOn) > 0
  /\ Len(Value(result).availablePhases) < Len(Value(result).phases)

\* C2: calculateAvailablePhases returns the numbers of the phases that are not
\* complete and whose dependsOn numbers all are numbers of complete phases,
\* each as often as there are such phases, in ascending order.
C2_CalculateAvailablePhases ==
  pc = "calculated" =>
    LET returned == Value(available)
        numbers == { phases[i].number : i \in 1..Len(phases) }
                     \cup { returned[i] : i \in 1..Len(returned) }
    IN  /\ \A n \in numbers :
             Cardinality({ i \in 1..Len(returned) : returned[i] = n })
               = Cardinality({ i \in 1..Len(phases) :
                                 phases[i].number = n /\ Startable(phases, phases[i]) })
        /\ Ascending(returned)

\* The list is not in ascending order, two of its phases are returned and
\* one that is not complete is held back by its dependencies.
C2_Witness ==
  /\ pc = "calculated"
  /\ ~Ascending(Numbers(phases))
  /\ Len(Value(available)) >= 2
  /\ \E i \in 1..Len(phases) :
       ~phases[i].isComplete /\ ~SeqIncludes(Value(available), phases[i].number)
  /\ \E i \in 1..Len(phases) : phases[i].isComplete

\* C3: in the map of parseDependencies, if the record of B has A in dependsOn
\* and A has a record, the record of A has B in blocks.
C3_ReverseEdges ==
  DependenciesParsed =>
    \A a, b \in 1..Len(Value(dependencies)) :
      SeqIncludes(Value(dependencies)[b].value.dependsOn, Value(dependencies)[a].key)
        => SeqIncludes(Value(dependencies)[a].value.blocks, Value(dependencies)[b].key)

\* B depends on another phase A whose own line states no block.
C3_Witness ==
  /\ DependenciesParsed
  /\ \E a, b \in 1..Len(Value(dependencies)) :
       /\ a # b
       /\ SeqIncludes(Value(dependencies)[b].value.dependsOn, Value(dependencies)[a].key)
       /\ Value(dependencies)[a].value.description = "depends on ALL earlier phases, depends on Phase 3"
       /\ Value(dependencies)[a].value.blocks = << Value(dependencies)[b].key >>

\* C4: every blocks list of the map of parseDependencies is in ascending order
\* and holds no phase number twice.
C4_BlocksSortedAndDistinct ==
  DependenciesParsed =>
    \A e \in 1..Len(Value(dependencies)) :
      LET blocks == Value(dependencies)[e].value.blocks
      IN  \A i, j \in 1..Len(blocks) : i < j => blocks[i] < blocks[j]

\* The number of tasks of all the phases of list, or of the completed ones
TaskCount(list, completedOnly) ==
  Cardinality(UNION { { << i, k >> : k \in { m \in 1..Len(list[i].tasks) :
                                               completedOnly => list[i].tasks[m].completed } } :
                        i \in 1..Len(list) })

\* C5: totalTasks is the number of tasks of all phases and completedTasks the
\* number of the completed ones; a phase's totalCount is the length of its
\* task list and its completedCount the number of its completed tasks.
C5_Totals ==
  Parsed =>
    LET r == Value(result)
    IN  /\ r.totalTasks = TaskCount(r.phases, FALSE)
        /\ r.completedTasks = TaskCount(r.phases, TRUE)
        /\ \A i \in 1..Len(r.phases) :
             /\ r.phases[i].totalCount = Len(r.phases[i].tasks)
             /\ r.phases[i].completedCount
                  = Cardinality({ k \in 1..Len(r.phases[i].tasks) : r.phases[i].tasks[k].completed })

\* Two phases with tasks, some of them completed and some not.
C5_Witness ==
  /\ Parsed
  /\ Cardinality({ i \in 1..Len(Value(result).phases) : Value(result).phases[i].totalCount > 0 }) >= 2
  /\ Value(result).completedTasks >= 1
  /\ Value(result).completedTasks < Value(result).totalTasks

\* C6: a phase is complete exactly when it has a task and all its tasks are
\* completed; a phase without tasks is not complete.
C6_IsComplete ==
  Parsed =>
    \A i \in 1..Len(Value(result).phases) :
      LET p == Value(result).phases[i]
      IN  p.isComplete <=> (Len(p.tasks) >= 1 /\ \A k \in 1..Len(p.tasks) : p.tasks[k].completed)

\* A phase without tasks, which is not complete, next to a complete phase.
C6_Witness ==
  /\ Parsed
  /\ \E i, j \in 1..Len(Value(result).phases) :
       /\ Len(Value(result).phases[i].tasks) = 0
       /\ ~Value(result).phases[i].isComplete
       /\ Value(result).phases[j].isComplete

\* C7: nextPhase is undefined exactly when no phase is incomplete; otherwise
\* it is the first incomplete phase in document order.
C7_NextPhase ==
  Parsed =>
    LET r == Value(result)
    IN  /\ ~IsDefined(r.nextPhase) <=> \A i \in 1..Len(r.phases) : r.phases[i].isComplete
        /\ IsDefined(r.nextPhase) =>
             \E i \in 1..Len(r.phases) :
               /\ r.phases[i] = Value(r.nextPhase)
               /\ ~r.phases[i].isComplete
               /\ \A j \in 1..(i - 1) : r.phases[j].isComplete

\* The next phase has tasks and comes before a complete phase.
C7_Witness ==
  /\ Parsed
  /\ IsDefined(Value(result).nextPhase)
  /\ Len(Value(Value(result).nextPhase).tasks) > 0
  /\ \E i, j \in 1..Len(Value(result).phases) :
       /\ i < j
       /\ Value(result).phases[i] = Value(Value(result).nextPhase)
       /\ Value(result).phases[j].isComplete

\* C8, as claimed: no incomplete phase has a number smaller than nextPhase's.
C8_LowestNumbered ==
  (Parsed /\ IsDefined(Value(result).nextPhase)) =>
    \A i \in 1..Len(Value(result).phases) :
      ~Value(result).phases[i].isComplete
        => Value(result).phases[i].number >= Value(Value(result).nextPhase).number

\* C8, amended: when the phase headers appear in ascending number order, no
\* incomplete phase has a number smaller than nextPhase's.
C8_LowestNumberedWhenAscending ==
  (Parsed /\ IsDefined(Value(result).nextPhase) /\ Ascending(Numbers(Value(result).phases))) =>
    \A i \in 1..Len(Value(result).phases) :
      ~Value(result).phases[i].isComplete
        => Value(result).phases[i].number >= Value(Value(result).nextPhase).number

\* Headers in ascending order, a complete phase first, then two incomplete
\* phases with different numbers.
C8_Witness ==
  /\ Parsed
  /\ IsDefined(Value(result).nextPhase)
  /\ Ascending(Numbers(Value(result).phases))
  /\ Value(result).phases[1].isComplete
  /\ \E i, j \in 1..Len(Value(result).phases) :
       /\ ~Value(result).phases[i].isComplete
       /\ ~Value(result).phases[j].isComplete
       /\ Value(result).phases[i].number < Value(result).phases[j].number

\* C9: nextTask is the first incomplete task of nextPhase when there is one,
\* and undefined otherwise.
C9_NextTask ==
  Parsed =>
    LET r == Value(result)
        open == IF IsDefined(r.nextPhase)
                THEN { k \in 1..Len(Value(r.nextPhase).tasks) : ~Value(r.nextPhase).tasks[k].completed }
                ELSE {}
    IN  IF open = {} THEN r.nextTask = undefined
        ELSE r.nextTask = Some(Value(r.nextPhase).tasks[CHOOSE k \in open : \A m \in open : k <= m])

\* C10: availablePhases of a parse result is in ascending order of phase number.
C10_AvailablePhasesSorted ==
  Parsed => Ascending(Numbers(Value(result).availablePhases))

\* The lines of the document
DocumentLines == Split(content, "\n")

\* The numbers of the well-formed phase dependency lines of the whole document
MasterList == AllPhaseNumbers(DocumentLines)

\* How often n occurs in seq
Count(seq, n) == Cardinality({ i \in 1..Len(seq) : seq[i] = n })

\* Every record of the map with "depends on all" in its description depends
\* on the numbers of the list below its own, in the order of the list
DependsOnAllBelow(map, masterList) ==
  \A e \in 1..Len(map) :
    LET IsBelow(n) == n < map[e].key
    IN  DEPENDS_ON_ALL_REGEX(map[e].value.description)
          => map[e].value.dependsOn = SelectSeq(masterList, IsBelow)

\* C13: a record whose description has "depends on all" in any letter case
\* has for dependsOn the numbers of the master list below its own number, in
\* the order of the list, whatever "depends on Phase M" the description has.
C13_DependsOnAll ==
  DependenciesParsed => DependsOnAllBelow(Value(dependencies), MasterList)

\* A record with "depends on ALL" and "depends on Phase 3" in its description
\* that depends on exactly one phase, which is not phase 3.
C13_Witness ==
  /\ DependenciesParsed
  /\ \E e \in 1..Len(Value(dependencies)) :
       LET record == Value(dependencies)[e].value
       IN  /\ DEPENDS_ON_ALL_REGEX(record.description)
           /\ DEPENDS_ON_REGEX(record.description) = << "3" >>
           /\ Len(record.dependsOn) = 1
           /\ record.dependsOn[1] # 3

\* The blocks targets the description of the record of phase N states
StatedBlocks(N, description, masterList) ==
  LET IsAbove(n) == n > N
      phrases == BLOCKS_PHASE_REGEX(description)
  IN  IF BLOCKS_ALL_REGEX(description)
      THEN SelectSeq(masterList, IsAbove)
      ELSE [ i \in 1..Len(phrases) |-> ParseDigits(phrases[i]) ]

\* The blocks of the record are the stated targets and, once each, the
\* dependants that are not among them
BlocksAre(blocks, stated, dependants) ==
  \A n \in { blocks[i] : i \in 1..Len(blocks) } \cup { stated[i] : i \in 1..Len(stated) }
             \cup dependants :
    Count(blocks, n)
      = Count(stated, n) + (IF n \in dependants /\ Count(stated, n) = 0 THEN 1 ELSE 0)

\* BlocksAre for every record of the map
BlocksAreStated(map, masterList) ==
  \A e \in 1..Len(map) :
    BlocksAre(map[e].value.blocks,
              StatedBlocks(map[e].key, map[e].value.description, masterList),
              { map[b].key : b \in { k \in 1..Len(map) :
                                       SeqIncludes(map[k].value.dependsOn, map[e].key) } })

\* C14: the blocks of a record are the stated targets (with "BLOCKS all" the
\* master-list numbers above its own and no "Blocks Phase M" phrase, otherwise
\* the number of every "Blocks Phase M" phrase) and, once each, the recorded
\* phases that depend on it and are not among the stated targets.
C14_StatedBlocks ==
  DependenciesParsed => BlocksAreStated(Value(dependencies), MasterList)

\* Dependency lines for the phases 1, 2 and 3; the record of phase 1 has
\* "BLOCKS all" and "Blocks Phase 1" in its description and blocks 2 and 3.
C14_Witness ==
  /\ DependenciesParsed
  /\ \E e \in 1..Len(Value(dependencies)) :
       LET record == Value(dependencies)[e].value
       IN  /\ Value(dependencies)[e].key = 1
           /\ BLOCKS_ALL_REGEX(record.description)
           /\ BLOCKS_PHASE_REGEX(record.description) = << "1" >>
           /\ MasterList = << 1, 2, 3 >>
           /\ record.blocks = << 2, 3 >>

\* The position of the Parallel Opportunities header, 0 without one
OpportunitiesStart(lines) ==
  FindIndex(lines, FindIndex(lines, 0, DEPENDENCIES_SECTION_START),
            PARALLEL_OPPORTUNITIES_HEADER)

\* The positions after start of the Parallel Opportunities lines for phase N
OpportunityLines(lines, start, N) ==
  { i \in (start + 1)..Len(lines) :
      /\ start # 0
      /\ IsDefined(PARALLEL_OPP_LINE_REGEX(lines[i]))
      /\ ParseDigits(Value(PARALLEL_OPP_LINE_REGEX(lines[i])).number) = N }

\* n in decimal, padded with zeros to three digits
ThreeDigits(n) ==
  IF n < 10 THEN "00" \o NumberToString(n)
  ELSE IF n < 100 THEN "0" \o NumberToString(n)
  ELSE NumberToString(n)

\* The line at position i, when it is the only line of its phase and names
\* one range with start <= end, gives the record of the phase the tasks of
\* the range
RangeExpanded(map, lines, start, i) ==
  LET match == PARALLEL_OPP_LINE_REGEX(lines[i])
      N == ParseDigits(Value(match).number)
      description == Value(match).description
      ranges == TASK_RANGE_REGEX(description, 1)
      first == ParseDigits(ranges[1].start)
      last == ParseDigits(ranges[1].end)
  IN  ( /\ IsDefined(match)
        /\ OpportunityLines(lines, start, N) = { i }
        /\ Len(ranges) = 1
        /\ TASK_ID_REGEX(description, 1) = << ranges[1].start, ranges[1].end >>
        /\ first <= last )
      => /\ MapHas(map, N)
         /\ Len(Value(MapGet(map, N)).parallelTasks) = last - first + 1
         /\ { Value(MapGet(map, N)).parallelTasks[k] : k \in 1..(last - first + 1) }
              = { "T" \o ThreeDigits(n) : n \in first..last }

\* RangeExpanded for every line of the document
RangesExpanded(map, lines, start) ==
  \A i \in 1..Len(lines) : RangeExpanded(map, lines, start, i)

\* C15: when the only Parallel Opportunities line of a phase has for its task
\* tokens one range T<start>-T<end> with start <= end, the parallelTasks of
\* the phase are the end-start+1 identifiers T<n>, n from start to end, each
\* padded to three digits, however the endpoints are written.
C15_RangeExpansion ==
  DependenciesParsed =>
    RangesExpanded(Value(dependencies), DocumentLines, OpportunitiesStart(DocumentLines))

\* C16: the parallelTasks of every record hold no identifier twice and are in
\* ascending order of their code units.
C16_TasksDistinctAndSorted ==
  DependenciesParsed =>
    \A e \in 1..Len(Value(dependencies)) :
      LET tasks == Value(dependencies)[e].value.parallelTasks
      IN  \A i, j \in 1..Len(tasks) : i < j => StringLess(tasks[i], tasks[j])

\* Overlapping ranges and an identifier listed inside a range give six tasks,
\* of which T012 comes last.
C16_Witness ==
  /\ DependenciesParsed
  /\ \E e \in 1..Len(Value(dependencies)) :
       Value(dependencies)[e].value.parallelTasks
         = << "T001", "T002", "T003", "T004", "T005", "T012" >>

\* The map of the document cut before its Parallel Opportunities header
RecordsBefore(lines, start) ==
  IF start = 0 THEN parseDependencies(content)
  ELSE parseDependencies(Join(SubSeq(lines, 1, start - 1)))

PhaseDependencyRecords == RecordsBefore(DocumentLines, OpportunitiesStart(DocumentLines))

\* The phases with a Parallel Opportunities line after start that names a task
PhasesWithTasks(lines, start) ==
  { ParseDigits(Value(PARALLEL_OPP_LINE_REGEX(lines[i])).number) :
      i \in { k \in (start + 1)..Len(lines) :
                /\ start # 0
                /\ IsDefined(PARALLEL_OPP_LINE_REGEX(lines[k]))
                /\ extractParallelTasks(Value(PARALLEL_OPP_LINE_REGEX(lines[k])).description)
                     # << >> } }

\* The record of phase N after the merge, against what the Phase
\* Dependencies block gave (before) and the phases with tasks
RecordMerged(map, N, record, before, withTasks) ==
  /\ IsDefined(before) =>
       /\ Value(before).parallelTasks = << >>
       /\ record = [ Value(before) EXCEPT !.parallelTasks = record.parallelTasks ]
  /\ ~IsDefined(before) =>
       /\ record.shortName = ""
       /\ record.dependsOn = << >>
       /\ record.canRunParallelWith = << >>
       /\ record.description = ""
       /\ N \in withTasks
       /\ \A k \in 1..Len(record.blocks) :
            \E b \in 1..Len(map) :
              /\ map[b].key = record.blocks[k]
              /\ SeqIncludes(map[b].value.dependsOn, N)
  /\ N \notin withTasks => record.parallelTasks = << >>
  /\ N \in withTasks => record.parallelTasks # << >>

\* RecordMerged for every record, and every record of the block is kept
MergeFrame(map, records, withTasks) ==
  /\ \A e \in 1..Len(map) :
       RecordMerged(map, map[e].key, map[e].value, MapGet(records, map[e].key), withTasks)
  /\ \A b \in 1..Len(records) : MapHas(map, records[b].key)

\* C17: a record that the Phase Dependencies block gives differs from it in
\* parallelTasks alone; a record the block does not give has empty shortName,
\* dependsOn, canRunParallelWith and description, and blocks only the phases
\* that depend on it; parallelTasks is empty for a phase without a Parallel
\* Opportunities line that names a task, and every record of the block is kept.
C17_MergeFrame ==
  DependenciesParsed =>
    MergeFrame(Value(dependencies), PhaseDependencyRecords,
               PhasesWithTasks(DocumentLines, OpportunitiesStart(DocumentLines)))

\* The record of phase 1 comes from the Phase Dependencies block and has
\* parallel tasks; the record of phase 2 comes from the Parallel Opportunities
\* alone and blocks phase 1, which depends on it.
C17_Witness ==
  /\ DependenciesParsed
  /\ MapHas(Value(dependencies), 1)
  /\ MapHas(Value(dependencies), 2)
  /\ Value(MapGet(Value(dependencies), 1)).parallelTasks # << >>
  /\ Value(MapGet(Value(dependencies), 1)).canRunParallelWith = << 4, 5 >>
  /\ Value(MapGet(Value(dependencies), 1)).blocks = << 3 >>
  /\ Value(MapGet(Value(dependencies), 2)).blocks = << 1 >>
  /\ MapHas(PhaseDependencyRecords, 1)
  /\ ~MapHas(PhaseDependencyRecords, 2)

\* A call of the function has thrown
Threw(call) == IsDefined(thrown) /\ Value(thrown).call = call

\* Task of types.ts
IsTask(t) ==
  /\ DOMAIN t = { "id", "completed", "title" }
  /\ t.id \in STRING
  /\ t.completed \in BOOLEAN
  /\ t.title \in STRING

\* PhaseDependency of types.ts
IsPhaseDependency(d) ==
  /\ DOMAIN d = { "shortName", "dependsOn", "blocks", "canRunParallelWith",
                  "parallelTasks", "description" }
  /\ d.shortName \in STRING
  /\ \A f \in { "dependsOn", "blocks", "canRunParallelWith" } :
       \A i \in 1..Len(d[f]) : d[f][i] \in Nat
  /\ \A i \in 1..Len(d.parallelTasks) : d.parallelTasks[i] \in STRING
  /\ d.description \in STRING

\* Phase of types.ts; priority and dependency are optional
IsPhase(p) ==
  /\ DOMAIN p = { "number", "title", "priority", "tasks", "completedCount",
                  "totalCount", "isComplete", "dependency" }
  /\ p.number \in Nat
  /\ p.title \in STRING
  /\ IsDefined(p.priority) => Value(p.priority) \in STRING
  /\ \A i \in 1..Len(p.tasks) : IsTask(p.tasks[i])
  /\ p.completedCount \in Nat
  /\ p.totalCount \in Nat
  /\ p.isComplete \in BOOLEAN
  /\ IsDefined(p.dependency) => IsPhaseDependency(Value(p.dependency))

\* ParseResult of types.ts; nextPhase and nextTask are optional
IsParseResult(r) ==
  /\ DOMAIN r = { "specFolder", "specName", "phases", "totalTasks",
                  "completedTasks", "nextPhase", "nextTask", "availablePhases" }
  /\ r.specFolder \in STRING
  /\ r.specName \in STRING
  /\ \A i \in 1..Len(r.phases) : IsPhase(r.phases[i])
  /\ r.totalTasks \in Nat
  /\ r.completedTasks \in Nat
  /\ IsDefined(r.nextPhase) => IsPhase(Value(r.nextPhase))
  /\ IsDefined(r.nextTask) => IsTask(Value(r.nextTask))
  /\ \A i \in 1..Len(r.availablePhases) : IsPhase(r.availablePhases[i])

\* C11: parseTasksFile returns a complete ParseResult, and throws nothing,
\* for every document, whatever malformed header, task, dependency or
\* parallel lines it holds; for the empty document the result has no phase,
\* totalTasks 0, completedTasks 0, no nextPhase and no available phase.
C11_AlwaysReturns ==
  /\ ~Threw("parseTasksFile")
  /\ Parsed =>
       /\ IsParseResult(Value(result))
       /\ content = "" =>
            /\ Value(result).phases = << >>
            /\ Value(result).totalTasks = 0
            /\ Value(result).completedTasks = 0
            /\ Value(result).nextPhase = undefined
            /\ Value(result).availablePhases = << >>

\* The lines that hold the text
LinesWith(lines, text) == { i \in 1..Len(lines) : Includes(lines[i], text) }

\* The lines that hold the marker of the dependencies section
MarkerLines == LinesWith(DocumentLines, DEPENDENCIES_SECTION_START)

\* The lines that hold the header of one of the two subsections
SubHeaderLines ==
  LinesWith(DocumentLines, PHASE_DEPENDENCIES_HEADER)
    \cup LinesWith(DocumentLines, PARALLEL_OPPORTUNITIES_HEADER)

\* No marker, or every sub-header before every marker
AllBefore(subHeaders, markers) ==
  markers = {} \/ \A h \in subHeaders : \A m \in markers : h < m

\* A well-formed phase-dependency line stands right under a Phase
\* Dependencies header
UnderHeader(lines) ==
  \E i \in 1..(Len(lines) - 1) :
    /\ Includes(lines[i], PHASE_DEPENDENCIES_HEADER)
    /\ IsDefined(PHASE_DEP_LINE_REGEX(lines[i + 1]))

DependencyLineUnderHeader == UnderHeader(DocumentLines)

\* C18: when no line of the document holds the marker "## Dependencies &
\* Execution Order", or every sub-header stands before the marker,
\* parseDependencies returns an empty map and no phase of the result of
\* parseTasksFile carries a dependency record, whatever sub-headers and
\* phase-dependency lines the document holds.
C18_NoMarkerNoDependencies ==
  AllBefore(SubHeaderLines, MarkerLines)
  => /\ DependenciesParsed => Value(dependencies) = << >>
     /\ Parsed => \A i \in 1..Len(Value(result).phases) :
                    Value(result).phases[i].dependency = undefined

\* parseTasksFile has returned a phase for a document without the marker
\* that holds a Phase Dependencies header and a well-formed line under it
C18_Witness ==
  /\ Parsed
  /\ MarkerLines = {}
  /\ DependencyLineUnderHeader
  /\ Len(Value(result).phases) > 0

\* parseDependencies has returned for a document whose Phase Dependencies
\* header and well-formed line stand before the marker
C18_BeforeMarker ==
  /\ DependenciesParsed
  /\ MarkerLines # {}
  /\ DependencyLineUnderHeader
  /\ AllBefore(SubHeaderLines, MarkerLines)

\* The lines that are phase headers
HeaderPositions(lines) ==
  { i \in 1..Len(lines) : IsDefined(PHASE_HEADER_REGEX(lines[i])) }

\* The k-th of the positions
Position(positions, k) ==
  CHOOSE h \in positions : Cardinality({ g \in positions : g <= h }) = k

\* The first of the positions after h, the line after the last where none is
FollowingPosition(positions, h, lines) ==
  IF { g \in positions : g > h } = {} THEN Len(lines) + 1
  ELSE CHOOSE g \in positions : g > h /\ \A f \in positions : f > h => g <= f

\* The well-formed task lines of lines[from..to], in order, as tasks
TasksOf(lines, from, to) ==
  LET WellFormed(line) == IsDefined(TASK_LINE_REGEX(line))
      taskLines == SelectSeq(SubSeq(lines, from, to), WellFormed)
  IN  [ i \in 1..Len(taskLines) |-> parseTaskLine(Value(TASK_LINE_REGEX(taskLines[i]))) ]

\* The well-formed task lines after the header at h and before the next one
\* (or the end of the document)
TasksUnderHeader(lines, headers, h) ==
  TasksOf(lines, h + 1, FollowingPosition(headers, h, lines) - 1)

\* The phases are the headers, each with the tasks under its header
PhasesAreHeaders(list, lines, headers) ==
  /\ Len(list) = Cardinality(headers)
  /\ \A k \in 1..Len(list) :
       list[k].tasks = TasksUnderHeader(lines, headers, Position(headers, k))

\* C19: the phases of the result are the phase headers of the document, and
\* the tasks of each are exactly the well-formed task lines after its header
\* and before the next header (or the end of the document), in document
\* order: a task line before the first header is in no phase, and a
\* malformed line gives no task and hides none.
C19_TasksUnderHeader ==
  Parsed => PhasesAreHeaders(Value(result).phases, DocumentLines,
                             HeaderPositions(DocumentLines))

\* A task line stands before the first header, and a malformed line between
\* two task lines of a phase with two tasks
SkipsLines(list, lines, headers) ==
  /\ headers # {}
  /\ \E i \in 1..Len(lines) :
       /\ IsDefined(TASK_LINE_REGEX(lines[i]))
       /\ \A h \in headers : i < h
  /\ \E k \in 1..Len(list) :
       /\ Len(list[k].tasks) = 2
       /\ \E i \in (Position(headers, k) + 1)..(Len(lines) - 1) :
            /\ lines[i] \in MalformedTaskLines
            /\ IsDefined(TASK_LINE_REGEX(lines[i - 1]))
            /\ IsDefined(TASK_LINE_REGEX(lines[i + 1]))

\* parseTasksFile has returned for a document with a task line before the
\* first header and a phase that holds two tasks and a malformed line
\* between them
C19_Witness ==
  /\ Parsed
  /\ SkipsLines(Value(result).phases, DocumentLines, HeaderPositions(DocumentLines))

\* The command line asks for the next item of the type: the type follows
\* -n or --next, or (for the phase) nothing that is a type does
Asks(type) ==
  \E i \in 1..Len(argv) :
    /\ argv[i] \in { "-n", "--next" }
    /\ IF i < Len(argv) /\ argv[i + 1] \in { "phase", "task" }
       THEN argv[i + 1] = type
       ELSE type = "phase" /\ (i = Len(argv) \/ argv[i + 1] \in { "-s", "--spec-folder" })

\* The incomplete tasks of a phase, in order
IncompleteTasks(phase) ==
  LET IsIncomplete(t) == ~t.completed
  IN  SelectSeq(phase.tasks, IsIncomplete)

\* The phases that are not complete, in order
IncompletePhases(list) ==
  LET IsIncomplete(phase) == ~phase.isComplete
  IN  SelectSeq(list, IsIncomplete)

\* The run has ended on a tasks file that exists
RanOnTasksFile == pc = "exited" /\ files = "tasks" /\ Parsed

\* C20: run with "--next task" on a tasks file that exists, the command
\* prints the identifier of the first incomplete task of the next phase and
\* exits with code 0, and prints "done" only when no phase has an incomplete
\* task; run with "--next" or "--next phase" it prints the number of the
\* first incomplete phase, or "done" when there is none.
C20_NextOutput ==
  RanOnTasksFile =>
    LET list == Value(result).phases
        open == IncompletePhases(list)
    IN  /\ exitCode = Some(0)
        /\ Asks("task") =>
             /\ (open # << >> /\ IncompleteTasks(Head(open)) # << >>)
                  => stdout = << Head(IncompleteTasks(Head(open))).id >>
             /\ stdout = << "done" >>
                  => \A k \in 1..Len(list) : IncompleteTasks(list[k]) = << >>
        /\ Asks("phase") =>
             stdout = << IF open # << >> THEN NumberToString(Head(open).number) ELSE "done" >>

\* The half of C20 that is about the phase
C20_NextPhaseOutput ==
  (RanOnTasksFile /\ Asks("phase")) =>
    /\ exitCode = Some(0)
    /\ stdout = << IF IncompletePhases(Value(result).phases) # << >>
                   THEN NumberToString(Head(IncompletePhases(Value(result).phases)).number)
                   ELSE "done" >>

\* C12: in any sequence of calls of parseTasksFile and parseDependencies in
\* one process, a call returns what the first call with the same arguments
\* returned, which is what the function gives for the arguments alone, and
\* no regular expression keeps a lastIndex from one call to the next.
C12_RepeatedCallsAgree ==
  /\ lastIndex = NewRegularExpressions
  /\ DependenciesParsed => Value(dependencies) = parseDependencies(content)
  /\ Parsed => Value(result) = parseTasksFile(content, specFolder)
  /\ (IsDefined(again) /\ Value(again).call = "parseDependencies")
       => Value(again).returned = Value(dependencies)
  /\ (IsDefined(again) /\ Value(again).call = "parseTasksFile")
       => Value(again).returned = Value(result)

\* parseTasksFile has been called a second time on a document whose lines
\* are tested for "Depends on all" and "BLOCKS all", after both parsers ran
C12_Witness ==
  /\ IsDefined(again)
  /\ Value(again).call = "parseTasksFile"
  /\ DependenciesParsed
  /\ \E i, j \in 1..Len(Value(dependencies)) :
       /\ DEPENDS_ON_ALL_REGEX(Value(dependencies)[i].value.description)
       /\ BLOCKS_ALL_REGEX(Value(dependencies)[j].value.description)

\* formatOutput has printed the result: called by main without --json, or by
\* a caller of the library
Formatted ==
  /\ pc \in { "returned", "formatted" }
  /\ IsDefined(options)
  /\ Value(options).json # Some(TRUE)

\* formatOutput has printed one phase in full: the first with options.phase
ShowsPhase ==
  /\ Formatted
  /\ IsDefined(Value(options).phase)
  /\ IsDefined(Value(Value(options).phase))
  /\ IsDefined(FindPhase(Value(result).phases, Value(Value(Value(options).phase))))

ShownPhase == Value(FindPhase(Value(result).phases, Value(Value(Value(options).phase))))

\* The line of the task is among the lines printed
Lists(task) == \E i \in 1..Len(stdout) : stdout[i] = formatTaskLine(task)

\* C21: when formatOutput displays a specific phase, it lists every
\* incomplete task of the phase whenever showAll is absent or false, and
\* lists a completed task only when showAll is true, also for the options
\* that main builds, where showAll is always a boolean.
C21_ShownTasks ==
  ShowsPhase =>
    \A k \in 1..Len(ShownPhase.tasks) :
      LET task == ShownPhase.tasks[k]
      IN  /\ (~task.completed /\ Value(options).showAll # Some(TRUE)) => Lists(task)
          /\ (task.completed /\ Lists(task)) => Value(options).showAll = Some(TRUE)

\* The part of C21 that holds: with showAll absent every incomplete task is
\* listed and no completed one, and with showAll true every task is listed
C21_ShownTasksUnlessFalse ==
  (ShowsPhase /\ Value(options).showAll # Some(FALSE)) =>
    \A k \in 1..Len(ShownPhase.tasks) :
      LET task == ShownPhase.tasks[k]
      IN  Lists(task) <=> (Value(options).showAll = Some(TRUE) \/ ~task.completed)

\* The position of the Phase Dependencies sub-header of the dependencies
\* section, 0 without the section or the sub-header
PhaseDependenciesStart(lines) ==
  IF FindIndex(lines, 0, DEPENDENCIES_SECTION_START) = 0 THEN 0
  ELSE FindIndex(lines, FindIndex(lines, 0, DEPENDENCIES_SECTION_START),
                 PHASE_DEPENDENCIES_HEADER)

\* The first position after start of a line that one of the prefixes
\* starts, the position after the last line without one
FirstStarting(lines, start, prefixes) ==
  LET hits == { i \in (start + 1)..Len(lines) :
                  \E prefix \in prefixes : StartsWith(lines[i], prefix) }
  IN  IF hits = {} THEN Len(lines) + 1 ELSE CHOOSE h \in hits : \A g \in hits : h <= g

\* The phase numbers of the phase-dependency lines between two positions
NumbersBetween(lines, start, end) ==
  { ParseDigits(Value(PHASE_DEP_LINE_REGEX(lines[i])).number) :
      i \in { k \in (start + 1)..(end - 1) : IsDefined(PHASE_DEP_LINE_REGEX(lines[k])) } }

\* The phases with a Parallel Opportunities entry: those of the lines from
\* the sub-header to the first line that starts with --- or ##
OpportunityPhases(lines, start) ==
  IF start = 0 THEN { }
  ELSE PhasesWithTasks(SubSeq(lines, 1, FirstStarting(lines, start, { "---", "## " }) - 1),
                       start)

\* Every number of the block has a record, and every record is for a number
\* of the block or for a phase with a Parallel Opportunities entry
BlockRecorded(map, block, entries) ==
  /\ \A N \in block : MapHas(map, N)
  /\ \A e \in 1..Len(map) : map[e].key \in block \cup entries

\* C22: every phase-dependency line after the "### Phase Dependencies"
\* sub-header and before the first following line that starts with "###" or
\* "## " yields a record for its phase number, wherever the "### Parallel
\* Opportunities" sub-header stands in the section (before, after, absent),
\* and the lines past that boundary yield no record.
C22_PhaseDependenciesBlock ==
  (DependenciesParsed /\ PhaseDependenciesStart(DocumentLines) # 0) =>
    BlockRecorded(Value(dependencies),
                  NumbersBetween(DocumentLines, PhaseDependenciesStart(DocumentLines),
                                 FirstStarting(DocumentLines,
                                               PhaseDependenciesStart(DocumentLines),
                                               { "###", "## " })),
                  OpportunityPhases(DocumentLines, OpportunitiesStart(DocumentLines)))

\* The part of C22 that holds: the claim for the documents whose Parallel
\* Opportunities sub-header is absent or stands after the Phase Dependencies
C22_BlockUnlessParallelFirst ==
  (OpportunitiesStart(DocumentLines) = 0
     \/ OpportunitiesStart(DocumentLines) > PhaseDependenciesStart(DocumentLines))
    => C22_PhaseDependenciesBlock

\* The last phase-dependency line for phase N between two positions
LastLineFor(lines, start, end, N) ==
  lines[CHOOSE i \in (start + 1)..(end - 1) :
          /\ IsDefined(PHASE_DEP_LINE_REGEX(lines[i]))
          /\ ParseDigits(Value(PHASE_DEP_LINE_REGEX(lines[i])).number) = N
          /\ \A k \in (i + 1)..(end - 1) :
               IsDefined(PHASE_DEP_LINE_REGEX(lines[k]))
                 => ParseDigits(Value(PHASE_DEP_LINE_REGEX(lines[k])).number) # N]

\* The keys of the map are the numbers of the block and of the entries, and
\* dependsOn of a record is what the last line for its phase states, or
\* nothing for a record that no line of the block gave
KeysAndDependsOnKept(map, lines, start, end, entries) ==
  /\ { map[e].key : e \in 1..Len(map) } = NumbersBetween(lines, start, end) \cup entries
  /\ \A e \in 1..Len(map) :
       map[e].value.dependsOn =
         IF map[e].key \in NumbersBetween(lines, start, end)
         THEN Value(parsePhaseDependencyLine(LastLineFor(lines, start, end, map[e].key),
                                             AllPhaseNumbers(lines))).dependency.dependsOn
         ELSE << >>

\* C23: reverse-edge synthesis and the final sort add and remove no key of
\* the map and change no dependsOn list: the keys returned are exactly the
\* phase numbers of the parsed Phase Dependencies lines and of the Parallel
\* Opportunities entries, so a number in a dependsOn list that has no record
\* of its own gets no record (and with it no blocks edge), and every
\* dependsOn list is the one its line states.
C23_SynthesisFrame ==
  (DependenciesParsed /\ PhaseDependenciesStart(DocumentLines) # 0) =>
    KeysAndDependsOnKept(Value(dependencies), DocumentLines,
                         PhaseDependenciesStart(DocumentLines),
                         FirstStarting(DocumentLines, PhaseDependenciesStart(DocumentLines),
                                       { "###", "## " }),
                         OpportunityPhases(DocumentLines, OpportunitiesStart(DocumentLines)))

\* parseDependencies has returned a record that depends on a phase without a
\* record and on a phase with a record, which blocks it
C23_Witness ==
  /\ DependenciesParsed
  /\ \E e \in 1..Len(Value(dependencies)) :
       LET record == Value(dependencies)[e]
       IN  /\ \E k \in 1..Len(record.value.dependsOn) :
                ~MapHas(Value(dependencies), record.value.dependsOn[k])
           /\ \E k \in 1..Len(record.value.dependsOn) :
                /\ MapHas(Value(dependencies), record.value.dependsOn[k])
                /\ SeqIncludes(Value(MapGet(Value(dependencies),
                                            record.value.dependsOn[k])).blocks,
                               record.key)

\* The positions of the phase headers agree with the phases, in order
HeadersArePhases(list, lines, headers) ==
  /\ Len(list) = Cardinality(headers)
  /\ \A k \in 1..Len(list) :
       LET match == Value(PHASE_HEADER_REGEX(lines[Position(headers, k)]))
       IN  /\ list[k].number = ParseDigits(match.number)
           /\ list[k].title = Trim(match.title)
           /\ list[k].priority = match.priority

\* Every phase carries the record the map has for its number, or none
RecordsAttached(list, map) ==
  \A k \in 1..Len(list) : list[k].dependency = MapGet(map, list[k].number)

\* Every phase of the second list is a phase of the first
AllAmong(sublist, list) ==
  \A k \in 1..Len(sublist) : \E i \in 1..Len(list) : list[i] = sublist[k]

\* C24: in the result of parseTasksFile a phase carries a dependency record
\* if and only if parseDependencies of the same text has a record for its
\* number, and it carries that record; phases is exactly the phase headers of
\* the document in document order, so a record whose number has no phase
\* header adds no phase to phases or to availablePhases.
C24_AttachedByNumber ==
  Parsed =>
    /\ RecordsAttached(Value(result).phases, parseDependencies(content))
    /\ HeadersArePhases(Value(result).phases, DocumentLines, HeaderPositions(DocumentLines))
    /\ AllAmong(Value(result).availablePhases, Value(result).phases)

\* parseTasksFile has returned a phase that carries a record and a phase that
\* carries none, for a text with a record whose number has no phase header
C24_Witness ==
  /\ Parsed
  /\ \E k \in 1..Len(Value(result).phases) : IsDefined(Value(result).phases[k].dependency)
  /\ \E k \in 1..Len(Value(result).phases) : ~IsDefined(Value(result).phases[k].dependency)
  /\ \E e \in 1..Len(parseDependencies(content)) :
       \A k \in 1..Len(Value(result).phases) :
         Value(result).phases[k].number # parseDependencies(content)[e].key

\* The numbers written in a run of digits and slashes, from position i: one
\* for every run of digits, in order
RECURSIVE DigitRuns(_, _)
DigitRuns(group, i) ==
  IF i > Len(group) THEN << >>
  ELSE IF IsDigit(Ch(group, i))
  THEN << ParseDigits(SubSeq(group, i, SkipDigits(group, i) - 1)) >>
         \o DigitRuns(group, SkipDigits(group, i))
  ELSE DigitRuns(group, i + 1)

\* The digits and slashes of the first phrase "parallel to Phase" or
\* "parallel to Phases" of the description that such a run follows, with or
\* without a space between; undefined without such a phrase
FirstParallelPhrase(description) ==
  LET Starts(i) ==
        \E j \in { i + 17, i + 18 } :
          /\ LitAt(description, i, "parallel to Phase")
          /\ j = i + 18 => Ch(description, i + 17) = "s"
          /\ SkipSpace(description, j) <= Len(description)
          /\ (IsDigit(Ch(description, SkipSpace(description, j)))
                \/ Ch(description, SkipSpace(description, j)) = "/")
      At(i) ==
        LET j == IF Ch(description, i + 17) = "s" THEN i + 18 ELSE i + 17
            k == SkipSpace(description, j)
        IN  SubSeq(description, k, SkipDigitsAndSlashes(description, k) - 1)
      hits == { i \in 1..Len(description) : Starts(i) }
  IN  IF hits = {} THEN undefined
      ELSE Some(At(CHOOSE h \in hits : \A g \in hits : h <= g))

\* The record is what the description states: the numbers of the first
\* phrase, the phases it depends on, and at least the phases it blocks
StatesParallel(record, description) ==
  /\ record.canRunParallelWith =
       IF IsDefined(FirstParallelPhrase(description))
       THEN DigitRuns(Value(FirstParallelPhrase(description)), 1)
       ELSE << >>
  /\ record.dependsOn =
       [ i \in 1..Len(DEPENDS_ON_REGEX(description)) |->
           ParseDigits(DEPENDS_ON_REGEX(description)[i]) ]
  /\ \A i \in 1..Len(BLOCKS_PHASE_REGEX(description)) :
       SeqIncludes(record.blocks, ParseDigits(BLOCKS_PHASE_REGEX(description)[i]))

\* StatesParallel of every record, for the last line of its phase
AllStateParallel(map, lines, start) ==
  \A e \in 1..Len(map) :
    StatesParallel(map[e].value,
                   Value(PHASE_DEP_LINE_REGEX(
                           LastLineFor(lines, start, Len(lines) + 1, map[e].key))).description)

\* C25: for a Phase Dependencies line whose description contains "parallel
\* to Phase" or "parallel to Phases" followed by digits and slashes,
\* canRunParallelWith is the integers of the non-empty slash-separated
\* segments of the first such phrase, in order of appearance; an empty
\* segment is discarded and stops neither the remaining segments nor
\* dependsOn and blocks; without such a phrase canRunParallelWith is empty.
C25_CanRunParallelWith ==
  DependenciesParsed =>
    AllStateParallel(Value(dependencies), DocumentLines,
                     PhaseDependenciesStart(DocumentLines))

\* parseDependencies has returned a record whose phrase has an empty segment
\* before a number, and which depends on a phase and blocks one
C25_Witness ==
  /\ DependenciesParsed
  /\ \E e \in 1..Len(Value(dependencies)) :
       LET record == Value(dependencies)[e].value
       IN  /\ IsDefined(FirstParallelPhrase(record.description))
           /\ Includes(Value(FirstParallelPhrase(record.description)), "//")
           /\ Len(record.canRunParallelWith) = 2
           /\ record.dependsOn # << >>
           /\ record.blocks # << >>

\* The numbers reached from the numbers of from in at most steps steps of
\* the dependsOn relation, one step at least
RECURSIVE ReachedFrom(_, _, _)
ReachedFrom(list, from, steps) ==
  IF steps = 0 THEN { }
  ELSE LET next == UNION { { Value(list[i].dependency).dependsOn[k] :
                               k \in 1..Len(Value(list[i].dependency).dependsOn) } :
                             i \in { j \in 1..Len(list) :
                                       list[j].number \in from /\ IsDefined(list[j].dependency) } }
       IN  next \cup ReachedFrom(list, next, steps - 1)

\* The phase numbers are distinct, every dependsOn number names a phase of
\* the list, and no phase depends on itself through any number of phases
WellFormedList(list) ==
  /\ \A i, j \in 1..Len(list) : i # j => list[i].number # list[j].number
  /\ \A i \in 1..Len(list) :
       /\ ReachedFrom(list, { list[i].number }, 1) \subseteq { list[j].number : j \in 1..Len(list) }
       /\ list[i].number \notin ReachedFrom(list, { list[i].number }, Len(list))

AllComplete(list) == \A i \in 1..Len(list) : list[i].isComplete

\* C26: starting from any phase list with distinct phase numbers whose
\* dependsOn numbers all name phases of the list and whose dependsOn relation
\* is acyclic, calculateAvailablePhases returns a non-empty list whenever
\* some phase is incomplete, and marking one returned phase complete and
\* recomputing, again and again, leads to the state where every phase is
\* complete and the returned list is empty.
C26_CompletionProgress ==
  /\ []((pc = "calculated" /\ WellFormedList(phases) /\ ~AllComplete(phases))
          => Value(available) # << >>)
  /\ WellFormedList(phases)
       ~> (pc = "calculated" /\ AllComplete(phases) /\ Value(available) = << >>)

\* Two phases, the second depending on the first, were returned and marked
\* complete one after the other, and nothing is returned any more
C26_Witness ==
  /\ pc = "calculated"
  /\ WellFormedList(phases)
  /\ AllComplete(phases)
  /\ Value(available) = << >>
  /\ Len(calls) = 2
  /\ \E i \in 1..Len(phases) :
       IsDefined(phases[i].dependency) /\ Value(phases[i].dependency).dependsOn # << >>

\* The numbers of the phases of the list that are not complete
IncompleteNumbers(list) == { list[i].number : i \in { j \in 1..Len(list) : ~list[j].isComplete } }

SummaryLine(i) == stdout[6 + i]

\* The phases of the result that are not complete, by position
IncompletePositions == { i \in 1..Len(Value(result).phases) : ~Value(result).phases[i].isComplete }

\* C28: in the all-phases summary that formatOutput prints for a result of
\* parseTasksFile, the line of an incomplete phase carries "[blocked by"
\* exactly when calculateAvailablePhases does not return the phase's number.
C28_BlockedIffUnavailable ==
  (pc = "formatted" /\ ~IsDefined(Value(options).phase))
    => \A i \in IncompletePositions :
         Includes(SummaryLine(i), "[blocked by ")
           <=> ~SeqIncludes(calculateAvailablePhases(Value(result).phases),
                            Value(result).phases[i].number)

\* The summary and calculateAvailablePhases agree on the phases whose
\* dependsOn numbers all name a phase, in a document that has no phase number
\* twice
C28_BlockedIffUnavailableAmongPhases ==
  (/\ pc = "formatted"
   /\ ~IsDefined(Value(options).phase)
   /\ \A i, j \in 1..Len(Value(result).phases) :
        i # j => Value(result).phases[i].number # Value(result).phases[j].number)
    => \A i \in IncompletePositions :
         ReachedFrom(Value(result).phases, { Value(result).phases[i].number }, 1)
             \subseteq { Value(result).phases[j].number : j \in 1..Len(Value(result).phases) }
           => (Includes(SummaryLine(i), "[blocked by ")
                 <=> ~SeqIncludes(calculateAvailablePhases(Value(result).phases),
                                  Value(result).phases[i].number))

\* A summary with a blocked phase
C28_Blocked ==
  /\ pc = "formatted"
  /\ ~IsDefined(Value(options).phase)
  /\ \E i \in IncompletePositions : Includes(SummaryLine(i), "[blocked by ")

\* C29: whenever nextPhase is defined in the result of parseTasksFile, it is
\* one of availablePhases.
C29_NextPhaseIsAvailable ==
  (pc \in { "parsed", "formatted" } /\ IsDefined(result) /\ IsDefined(Value(result).nextPhase))
    => SeqIncludes(Value(result).availablePhases, Value(Value(result).nextPhase))

\* The next phase of a document in which the first incomplete phase has no
\* dependency that is not complete
C29_NextPhaseIsAvailableUnlessBlocked ==
  (/\ pc \in { "parsed", "formatted" }
   /\ IsDefined(result)
   /\ IsDefined(Value(result).nextPhase)
   /\ Startable(Value(result).phases, Value(Value(result).nextPhase)))
    => SeqIncludes(Value(result).availablePhases, Value(Value(result).nextPhase))

\* formatOutput printed a recommendation for a phase that is not available
C29_RecommendsBlocked ==
  /\ pc = "formatted"
  /\ IsDefined(Value(result).nextPhase)
  /\ ~SeqIncludes(Value(result).availablePhases, Value(Value(result).nextPhase))
  /\ \E k \in 1..Len(stdout) : Includes(stdout[k], "Next Phase:")

\* The names of the functions called, in the order of the calls
Functions(made) == [ i \in 1..Len(made) |-> made[i].function ]

Calls(function) == SeqIncludes(Functions(calls), function)

IsPrefix(s, t) == Len(s) <= Len(t) /\ s = SubSeq(t, 1, Len(s))

\* The steps of main after help and version, in their order, for a run with
\* or without -s and a result printed as JSON or as text
StepOrders ==
  { detection \o << "existsSync", "existsSync", "readFileSync", "parseTasksFile", format >> :
      detection \in { << >>, << "getSpecFolderFromBranch" >> },
      format \in { "formatJSON", "formatOutput" } }

\* The run is over
Ended == pc \in { "exited", "returned" }

\* The first line on stderr starts with the message
ErrorIs(message) == Len(stderr) > 0 /\ StartsWith(stderr[1], "Error: " \o message)

\* C30: main runs its steps in the order help, version, spec-folder
\* resolution, folder check, tasks-file check, read and parse, --next output,
\* formatted output. Help or version ends the run with exit code 0 before a
\* folder is resolved or a file looked at; a failed detection, a missing
\* folder and a missing tasks file end it with exit code 1 before
\* parseTasksFile is called; --next ends it with exit code 0 and neither
\* formatOutput nor formatJSON called.
C30_MainSequence ==
  (Ended /\ IsDefined(parseCliArgs(argv))) =>
    LET args == Value(parseCliArgs(argv))
        given == IsDefined(args.specFolder) /\ Value(args.specFolder) # ""
    IN  /\ args.help =>
          exitCode = Some(0) /\ calls = << >> /\ stdout = << HELP_TEXT >>
        /\ (~args.help /\ args.version) =>
          exitCode = Some(0) /\ Functions(calls) = << "getVersion" >>
        /\ (~args.help /\ ~args.version) =>
          /\ \E order \in StepOrders : IsPrefix(Functions(calls), order)
          /\ Calls("getSpecFolderFromBranch") <=> ~given
          /\ ErrorIs("Could not detect spec folder") =>
               exitCode = Some(1) /\ Functions(calls) = << "getSpecFolderFromBranch" >>
          /\ (files = "nothing" \/ ErrorIs("Spec folder does not exist")) =>
               /\ exitCode = Some(1)
               /\ ~Calls("readFileSync")
               /\ ~Calls("parseTasksFile")
               /\ result = undefined
          /\ (files = "folder" \/ ErrorIs("Tasks file not found")) =>
               /\ exitCode = Some(1)
               /\ ~Calls("readFileSync")
               /\ ~Calls("parseTasksFile")
               /\ result = undefined
          /\ (IsDefined(args.next) /\ IsDefined(result)) =>
               /\ exitCode = Some(0)
               /\ ~Calls("formatOutput")
               /\ ~Calls("formatJSON")
               /\ Len(stdout) = 1
          /\ (~IsDefined(args.next) /\ IsDefined(result)) =>
               /\ pc = "returned"
               /\ Calls("formatJSON") <=> args.json
               /\ Calls("formatOutput") <=> ~args.json

\* A run with --next and --json that read and parsed the tasks file, printed
\* one line and ended with exit code 0
C30_Witness ==
  /\ pc = "exited"
  /\ exitCode = Some(0)
  /\ IsDefined(parseCliArgs(argv))
  /\ IsDefined(Value(parseCliArgs(argv)).next)
  /\ Value(parseCliArgs(argv)).json
  /\ Calls("parseTasksFile")
  /\ Len(stdout) = 1

\* Help asked for together with version and --next
C30_HelpFirst ==
  /\ pc = "exited"
  /\ IsDefined(parseCliArgs(argv))
  /\ Value(parseCliArgs(argv)).help
  /\ Value(parseCliArgs(argv)).version
  /\ stdout = << HELP_TEXT >>

\* A run that failed to detect the folder, one that missed the folder and one
\* that missed the tasks file
C30_Detection == Ended /\ ErrorIs("Could not detect spec folder") /\ exitCode = Some(1)

C30_NoFolder == Ended /\ ErrorIs("Spec folder does not exist") /\ exitCode = Some(1)

C30_NoTasksFile == Ended /\ ErrorIs("Tasks file not found") /\ exitCode = Some(1)

====
